---- MODULE Spec2Model ----
(***************************************************************************)
(* A model of the pluribus gateway (Arasple/pluribus).                     *)
(*                                                                         *)
(* The module holds sub-models that share no state:                        *)
(*   - the OAuth credential lifecycle of one ClaudeCodeProvider            *)
(*     (get_valid_token / send_request), specification SpecToken;          *)
(*   - the provider selection policy over the rate-limit snapshots         *)
(*     (AppState::get_next_provider), specification SpecSelect;            *)
(*   - the authentication middleware in front of the messages handler      *)
(*     (auth_middleware), specification SpecAuth;                          *)
(*   - the streaming relay (relay_stream), specification SpecRelay;        *)
(*   - the tool-name aliasing functions (to_spoofed / to_original),        *)
(*     specification SpecSpoof.                                            *)
(* Each specification moves its own variables and leaves the others alone. *)
(***************************************************************************)
EXTENDS Naturals, Integers, Sequences, FiniteSets, TLC

VARIABLES
    \* ---- OAuth credential lifecycle (one provider, concurrent callers)
    ticks,      \* wall clock, in steps of TickMs milliseconds
    disk,       \* the OAuth section of providers/<name>.toml
    cached_oauth, \* ClaudeCodeProvider.cached_oauth: <<>> (None) or <<cred>>
    pc,         \* pc[t]: where caller t stands in send_request
    oauth,      \* oauth[t]: the local `oauth` of get_valid_token, <<>> before the load
    response,   \* response[t]: the token endpoint's JSON answer, <<>> if none
    responseAt, \* responseAt[t]: the clock when parse_token_response ran
    outcome,    \* outcome[t]: "none", "ok" or the error get_valid_token returned
    token,      \* token[t]: the access token get_valid_token returned (0: none)
    tokCalls,   \* number of POSTs made to the token endpoint
    posts,      \* posts[t]: number of POSTs caller t made to the messages URL
    \* ---- provider selection
    now_s,      \* wall clock in seconds
    rate_limit, \* rate_limit[p]: ClaudeCodeProvider.rate_limit of provider p
    selection,  \* the last get_next_provider call: its filter, result, time
    \* ---- authentication middleware
    secret,     \* Config.secret
    request,    \* the headers of the request being served
    stage,      \* where that request stands
    reply,      \* the response: status and body
    effects,    \* what serving the request has done so far
    \* ---- streaming relay
    events,     \* the SSE events upstream sends (without their separators)
    trailer,    \* text upstream sends after the last separator
    upstream,   \* the bytes of the upstream body not yet delivered
    buffer,     \* relay_stream's `buffer`, as the bytes of the String
    sent,       \* what was sent into tx, one element per successful send
    relay,      \* "reading", "emitting" or "done"
    client,     \* "connected" or "gone" (the receiver was dropped)
    failed,     \* upstream yielded an error
    usage,      \* relay_stream's `usage`
    \* ---- tool-name aliasing
    name,       \* a tool name as the client sent it
    spoofed,    \* the name sent upstream
    restored,   \* the name handed back to the client
    phase,      \* "original", "spoofed" or "restored"
    \* ---- anthropic-beta merge
    passthrough,\* the anthropic-beta header the client sent: <<>> (none) or <<text>>
    beta_value, \* the anthropic-beta header sent upstream, <<>> before build_headers
    \* ---- system-prompt injection
    body,       \* the request body: its system field, <<>> (absent) or <<value>>
    injected,   \* the body after inject_claude_code_prompt, <<>> before it ran
    \* ---- usage merge
    total,      \* a Usage that starts as Usage::default()
    merged,     \* the Usage values merged into it so far, in order
    \* ---- messages handler
    step,       \* where handle_anthropic_messages stands: "select", "send", "post", "respond" or "done"
    streaming,  \* the stream flag of the request body
    selects,    \* number of get_next_provider calls made for the request
    chosen,     \* the provider selected, <<>> if none
    fetches,    \* fetches[p]: get_valid_token calls on provider p for the request
    calls,      \* calls[p]: POSTs to the messages URL through provider p
    token_result,\* "none", "ok" or the error of get_valid_token
    api_response,\* <<>>, or what the POST came back with
    answer,     \* the response to the client
    logged,     \* the usage the handler logged, <<>> if none
    \* ---- provider files
    fs_dirs,    \* the directories that exist, as paths
    fs_files,   \* fs_files[path]: the TOML text of the file at path, for each file there is
    saved,      \* <<>>, or the ProviderConfig last handed to save
    save_ok,    \* whether that save returned Ok
    loaded,     \* <<>>, or <<result of the load that followed>>, a result being <<>> (Err) or <<config>>
    saves,      \* number of save calls so far
    \* ---- provider directory
    dir_present,\* whether the providers directory exists
    dir_files,  \* dir_files[path]: the TOML text of the file at path, for each file there is
    last_op,    \* the last operation run on the directory: "none", "load", "load_all", "update_oauth"
    last_arg,   \* the provider name that operation was given, <<>> if none
    last_cred,  \* <<>>, or <<the OAuthConfig update_oauth was given>>
    last_result,\* what the operation returned
    files_before,\* dir_files as the operation found it
    ops,        \* number of operations so far
    \* ---- rate-limit ingestion
    received,   \* <<>>, or <<the last answer of the messages endpoint>>: the provider asked, the status, the headers
    responses,  \* number of POSTs to the messages endpoint so far
    \* ---- snapshot coherence
    rw_lock,    \* the RwLock around a provider snapshot: the thread holding it for writing (<<>> or <<t>>) and the threads holding it for reading
    guarded,    \* the RateLimitInfo behind the lock, each field tagged with the response that wrote it (0: RateLimitInfo::default())
    at_line,    \* where each thread stands
    built,      \* the RateLimitInfo each responding thread has built from its headers
    cloned,     \* the fields each reading thread has copied so far
    observed,   \* <<>>, or <<the snapshot rate_limit_info last returned to the reading thread>>
    reads,      \* number of snapshots read so far
    \* ---- request forwarding
    arrived,    \* the two client requests being handled, each with its headers and its JSON body
    handed,     \* per request, <<>> or <<the body the handler hands to the provider>>
    mode,       \* per request, the dispatch mode is_streaming
    posted,     \* per request, <<>> or <<the POST sent upstream>>: its headers and its body
    forward_step, \* how far the two requests have come
    \* ---- serving with several providers
    srv_files,  \* the files of the providers directory while the gateway serves: path to text
    srv_cache,  \* cached_oauth of each provider: <<>> (None) or <<credentials>>
    serving,    \* per request: the provider it was routed to, where it stands in get_valid_token, its local oauth, the text it is writing and how it ended
    \* ---- OAuth login
    login_now,  \* wall clock of the login command, in steps of LoginTickMs milliseconds
    cache_file, \* oauth_login_cache.json: <<"absent">>, <<"garbage">> or <<"cache", OAuthLoginCache>>
    generated,  \* number of PKCE sessions generated so far
    login,      \* the running perform_oauth_login: where it stands, its verifier, state and authorize URL, and what it returned
    prompts,    \* number of times the running login has asked for a code
    exchange,   \* <<>>, or <<the last token request exchange_code sent>>: code, verifier and state
    pasted,     \* the last line read from standard input
    logins      \* number of logins started so far

tokenVars == <<ticks, disk, cached_oauth, pc, oauth, response, responseAt,
               outcome, token, tokCalls, posts>>

selectVars == <<now_s, rate_limit, selection>>

authVars == <<secret, request, stage, reply, effects>>

relayVars == <<events, trailer, upstream, buffer, sent, relay, client, failed,
               usage>>

spoofVars == <<name, spoofed, restored, phase>>

betaVars == <<passthrough, beta_value>>

promptVars == <<body, injected>>

usageVars == <<total, merged>>

handlerVars == <<step, streaming, selects, chosen, fetches, calls, token_result, api_response, answer, logged>>

configVars == <<fs_dirs, fs_files, saved, save_ok, loaded, saves>>

dirVars == <<dir_present, dir_files, last_op, last_arg, last_cred, last_result, files_before, ops>>

ingestVars == <<received, responses>>

snapshotVars == <<rw_lock, guarded, at_line, built, cloned, observed, reads>>

forwardVars == <<arrived, handed, mode, posted, forward_step>>

serveVars == <<srv_files, srv_cache, serving>>

loginVars == <<login_now, cache_file, generated, login, prompts, exchange, pasted, logins>>

vars == <<tokenVars, selectVars, authVars, relayVars, spoofVars, betaVars,
          promptVars, usageVars, handlerVars, configVars, dirVars,
          ingestVars, snapshotVars, forwardVars, serveVars, loginVars>>

notToken == <<selectVars, authVars, relayVars, spoofVars, betaVars,
              promptVars, usageVars, handlerVars, configVars, dirVars,
              ingestVars, snapshotVars, forwardVars, serveVars, loginVars>>

notSelect == <<tokenVars, authVars, relayVars, spoofVars, betaVars,
               promptVars, usageVars, handlerVars, configVars, dirVars,
               ingestVars, snapshotVars, forwardVars, serveVars, loginVars>>

notAuth == <<tokenVars, selectVars, relayVars, spoofVars, betaVars,
             promptVars, usageVars, handlerVars, configVars, dirVars,
             ingestVars, snapshotVars, forwardVars, serveVars, loginVars>>

notRelay == <<tokenVars, selectVars, authVars, spoofVars, betaVars,
              promptVars, usageVars, handlerVars, configVars, dirVars,
              ingestVars, snapshotVars, forwardVars, serveVars, loginVars>>

notSpoof == <<tokenVars, selectVars, authVars, relayVars, betaVars,
              promptVars, usageVars, handlerVars, configVars, dirVars,
              ingestVars, snapshotVars, forwardVars, serveVars, loginVars>>

notBeta == <<tokenVars, selectVars, authVars, relayVars, spoofVars,
             promptVars, usageVars, handlerVars, configVars, dirVars,
             ingestVars, snapshotVars, forwardVars, serveVars, loginVars>>

notPrompt == <<tokenVars, selectVars, authVars, relayVars, spoofVars,
               betaVars, usageVars, handlerVars, configVars, dirVars,
               ingestVars, snapshotVars, forwardVars, serveVars, loginVars>>

notUsage == <<tokenVars, selectVars, authVars, relayVars, spoofVars,
              betaVars, promptVars, handlerVars, configVars, dirVars,
              ingestVars, snapshotVars, forwardVars, serveVars, loginVars>>

notHandler == <<tokenVars, selectVars, authVars, relayVars, spoofVars,
                betaVars, promptVars, usageVars, configVars, dirVars,
                ingestVars, snapshotVars, forwardVars, serveVars,
                loginVars>>

notConfig == <<tokenVars, selectVars, authVars, relayVars, spoofVars,
               betaVars, promptVars, usageVars, handlerVars, dirVars,
               ingestVars, snapshotVars, forwardVars, serveVars, loginVars>>

notDir == <<tokenVars, selectVars, authVars, relayVars, spoofVars,
            betaVars, promptVars, usageVars, handlerVars, configVars,
            ingestVars, snapshotVars, forwardVars, serveVars, loginVars>>

notIngest == <<tokenVars, selectVars, authVars, relayVars, spoofVars,
               betaVars, promptVars, usageVars, handlerVars, configVars,
               dirVars, snapshotVars, forwardVars, serveVars, loginVars>>

notSnapshot == <<tokenVars, selectVars, authVars, relayVars, spoofVars,
                 betaVars, promptVars, usageVars, handlerVars, configVars,
                 dirVars, ingestVars, forwardVars, serveVars, loginVars>>

notForward == <<tokenVars, selectVars, authVars, relayVars, spoofVars,
                betaVars, promptVars, usageVars, handlerVars, configVars,
                dirVars, ingestVars, snapshotVars, serveVars, loginVars>>

notServe == <<tokenVars, selectVars, authVars, relayVars, spoofVars,
              betaVars, promptVars, usageVars, handlerVars, configVars,
              dirVars, ingestVars, snapshotVars, forwardVars, loginVars>>

notLogin == <<tokenVars, selectVars, authVars, relayVars, spoofVars,
              betaVars, promptVars, usageVars, handlerVars, configVars,
              dirVars, ingestVars, snapshotVars, forwardVars, serveVars>>

(***************************************************************************)
(* Bounds of the model.                                                    *)
(***************************************************************************)
NumCallers == 2
MaxTicks == 1
MaxNowS == 2

Callers == 1..NumCallers

(***************************************************************************)
(* OAuth credential lifecycle                                              *)
(***************************************************************************)
TickMs == 100 * 1000

unix_timestamp_ms == ticks * TickMs

TOKEN_REFRESH_THRESHOLD_MS == 5 * 60 * 1000

should_refresh_at_gt(cred, nowMs) ==
    nowMs + TOKEN_REFRESH_THRESHOLD_MS > cred.expires_at

\* OAuthConfig::should_refresh, with the clock reading as a parameter
should_refresh_at(cred, nowMs) ==
    nowMs + TOKEN_REFRESH_THRESHOLD_MS >= cred.expires_at

should_refresh(cred) == should_refresh_at(cred, unix_timestamp_ms)

\* OAuthConfig (scopes are carried along unchanged and are left out)
OAuthConfig(at, rt, exp) ==
    [access_token |-> at, refresh_token |-> rt, expires_at |-> exp]

\* On-disk credentials a login may have left: stale (expires in 60 s),
\* exactly on the threshold, and fresh for one more tick.
InitialExpiresAt == {60 * 1000, 5 * 60 * 1000, 4 * TickMs}

\* What the token endpoint may answer on success.  A field the answer lacks
\* is 0 (tokens) or -1 (expires_in).
ExpiresInValues == {-1, 60, 400}

\* The endpoint issues tokens of its own per call: n names the call.
TokenResponses(n, oldRt) ==
    [access_token : {n}, refresh_token : {n, oldRt}, expires_in : ExpiresInValues]
      \cup {[access_token |-> 0, refresh_token |-> n, expires_in |-> 400]}

\* parse_token_response: <<>> is the Err of a missing field
parse_token_response_mut(json, nowMs) ==
    IF json.access_token = 0 \/ json.refresh_token = 0 \/ json.expires_in < 0
    THEN <<>>
    ELSE <<OAuthConfig(json.access_token, json.refresh_token,
                       nowMs + json.expires_in)>>

parse_token_response(json, nowMs) ==
    IF json.access_token = 0 \/ json.refresh_token = 0 \/ json.expires_in < 0
    THEN <<>>
    ELSE <<OAuthConfig(json.access_token, json.refresh_token,
                       nowMs + (json.expires_in * 1000))>>

Return(t, how) ==
    /\ pc' = [pc EXCEPT ![t] = "done"]
    /\ outcome' = [outcome EXCEPT ![t] = how]

\* get_valid_token, lines 132-139: the cache check under the mutex
CheckCache(t) ==
    /\ pc[t] = "idle"
    /\ IF cached_oauth # <<>> /\ ~should_refresh(cached_oauth[1])
       THEN /\ pc' = [pc EXCEPT ![t] = "post"]
            /\ outcome' = [outcome EXCEPT ![t] = "ok"]
            /\ token' = [token EXCEPT ![t] = cached_oauth[1].access_token]
       ELSE /\ pc' = [pc EXCEPT ![t] = "load"]
            /\ UNCHANGED <<outcome, token>>
    /\ UNCHANGED <<ticks, disk, cached_oauth, oauth, response, responseAt,
                   tokCalls, posts>>
    /\ UNCHANGED notToken

\* get_valid_token, lines 142-149: load from the file, then decide
LoadByName(t) ==
    /\ pc[t] = "load"
    /\ oauth' = [oauth EXCEPT ![t] = <<disk>>]
    /\ pc' = [pc EXCEPT ![t] = IF should_refresh(disk) THEN "refresh" ELSE "store"]
    /\ UNCHANGED <<ticks, disk, cached_oauth, response, responseAt, outcome,
                   token, tokCalls, posts>>
    /\ UNCHANGED notToken

\* config::load_by_name fails (the file is unreadable): `?` returns the error
LoadFail(t) ==
    /\ pc[t] = "load"
    /\ Return(t, "load_err")
    /\ UNCHANGED <<ticks, disk, cached_oauth, oauth, response, responseAt,
                   token, tokCalls, posts>>
    /\ UNCHANGED notToken

\* oauth::refresh_token -> token_request: the POST to the token endpoint
RefreshSend(t) ==
    /\ pc[t] = "refresh"
    /\ tokCalls' = tokCalls + 1
    /\ pc' = [pc EXCEPT ![t] = "refreshing"]
    /\ UNCHANGED <<ticks, disk, cached_oauth, oauth, response, responseAt,
                   outcome, token, posts>>
    /\ UNCHANGED notToken

\* token_request returns 2xx with a JSON body; parse_token_response reads it
RefreshRecv(t) ==
    /\ pc[t] = "refreshing"
    /\ \E json \in TokenResponses(10 + t, oauth[t][1].refresh_token) :
         LET parsed == parse_token_response(json, unix_timestamp_ms) IN
         /\ response' = [response EXCEPT ![t] = <<json>>]
         /\ responseAt' = [responseAt EXCEPT ![t] = unix_timestamp_ms]
         /\ IF parsed = <<>>
            THEN /\ Return(t, "refresh_err")
                 /\ UNCHANGED oauth
            ELSE /\ oauth' = [oauth EXCEPT ![t] = parsed]
                 /\ pc' = [pc EXCEPT ![t] = "persist"]
                 /\ UNCHANGED outcome
    /\ UNCHANGED <<ticks, disk, cached_oauth, token, tokCalls, posts>>
    /\ UNCHANGED notToken

RefreshFail_clears(t) ==
    /\ pc[t] = "refreshing"
    /\ Return(t, "refresh_err")
    /\ cached_oauth' = <<>>
    /\ UNCHANGED <<ticks, disk, oauth, response, responseAt,
                   token, tokCalls, posts>>
    /\ UNCHANGED notToken

\* token_request fails: transport error or a non-2xx answer
RefreshFail(t) ==
    /\ pc[t] = "refreshing"
    /\ Return(t, "refresh_err")
    /\ UNCHANGED <<ticks, disk, cached_oauth, oauth, response, responseAt,
                   token, tokCalls, posts>>
    /\ UNCHANGED notToken

\* config::update_oauth: load the record, replace its OAuth section, save
UpdateOauth(t) ==
    /\ pc[t] = "persist"
    /\ disk' = oauth[t][1]
    /\ pc' = [pc EXCEPT ![t] = "store"]
    /\ UNCHANGED <<ticks, cached_oauth, oauth, response, responseAt, outcome,
                   token, tokCalls, posts>>
    /\ UNCHANGED notToken

UpdateOauthFail_caches(t) ==
    /\ pc[t] = "persist"
    /\ Return(t, "persist_err")
    /\ cached_oauth' = oauth[t]
    /\ UNCHANGED <<ticks, disk, oauth, response, responseAt,
                   token, tokCalls, posts>>
    /\ UNCHANGED notToken

\* config::update_oauth fails (I/O): `?` returns the error
UpdateOauthFail(t) ==
    /\ pc[t] = "persist"
    /\ Return(t, "persist_err")
    /\ UNCHANGED <<ticks, disk, cached_oauth, oauth, response, responseAt,
                   token, tokCalls, posts>>
    /\ UNCHANGED notToken

\* get_valid_token, lines 156-162: update the cache under the mutex, return
StoreCache(t) ==
    /\ pc[t] = "store"
    /\ cached_oauth' = oauth[t]
    /\ token' = [token EXCEPT ![t] = oauth[t][1].access_token]
    /\ outcome' = [outcome EXCEPT ![t] = "ok"]
    /\ pc' = [pc EXCEPT ![t] = "post"]
    /\ UNCHANGED <<ticks, disk, oauth, response, responseAt, tokCalls, posts>>
    /\ UNCHANGED notToken

\* send_request, lines 177-198: the POST to the messages URL
PostMessages(t) ==
    /\ pc[t] = "post"
    /\ posts' = [posts EXCEPT ![t] = posts[t] + 1]
    /\ pc' = [pc EXCEPT ![t] = "done"]
    /\ UNCHANGED <<ticks, disk, cached_oauth, oauth, response, responseAt,
                   outcome, token, tokCalls>>
    /\ UNCHANGED notToken

\* the wall clock advances
Tick ==
    /\ ticks < MaxTicks
    /\ ticks' = ticks + 1
    /\ UNCHANGED <<disk, cached_oauth, pc, oauth, response, responseAt,
                   outcome, token, tokCalls, posts>>
    /\ UNCHANGED notToken

InitToken ==
    /\ ticks = 0
    /\ disk \in {OAuthConfig(1, 1, e) : e \in InitialExpiresAt}
    /\ cached_oauth = <<>>
    /\ pc = [t \in Callers |-> "idle"]
    /\ oauth = [t \in Callers |-> <<>>]
    /\ response = [t \in Callers |-> <<>>]
    /\ responseAt = [t \in Callers |-> 0]
    /\ outcome = [t \in Callers |-> "none"]
    /\ token = [t \in Callers |-> 0]
    /\ tokCalls = 0
    /\ posts = [t \in Callers |-> 0]

\* the credential sub-model at rest, for the specifications that do not move it
QuietToken == InitToken /\ disk.expires_at = 60 * 1000

NextToken ==
    \/ \E t \in Callers : CheckCache(t)
    \/ \E t \in Callers : LoadByName(t)
    \/ \E t \in Callers : LoadFail(t)
    \/ \E t \in Callers : RefreshSend(t)
    \/ \E t \in Callers : RefreshRecv(t)
    \/ \E t \in Callers : RefreshFail(t)
    \/ \E t \in Callers : UpdateOauth(t)
    \/ \E t \in Callers : UpdateOauthFail(t)
    \/ \E t \in Callers : StoreCache(t)
    \/ \E t \in Callers : PostMessages(t)
    \/ Tick

(***************************************************************************)
(* Provider selection (gateway/state.rs) and the rate-limit snapshots      *)
(***************************************************************************)

\* The registry, in its order: AppState.providers
providers == <<"A", "B">>

ProviderSet == {providers[i] : i \in 1..Len(providers)}

\* utilization is kept in thousandths: 0.995 is 995
UTILIZATION_THRESHOLD == 995

\* Values the anthropic-ratelimit-unified-{5h,7d}-{reset,utilization} headers
\* of a response may carry, per window: no headers (all read as 0), and a
\* reset at second 1 with a utilization on, just over and far over 0.995.
WindowHeaders ==
    {[reset |-> 0, utilization |-> 0], [reset |-> 1, utilization |-> 995],
     [reset |-> 1, utilization |-> 996], [reset |-> 1, utilization |-> 1000]}

RateLimitWindow(reset, utilization) ==
    [reset |-> reset, utilization |-> utilization]

\* RateLimitInfo::default()
DefaultRateLimitInfo ==
    [five_hour |-> RateLimitWindow(0, 0), seven_day |-> RateLimitWindow(0, 0),
     updated_at |-> 0]

RateLimitHeaders == [five_hour : WindowHeaders, seven_day : WindowHeaders]

is_window_available_lt(window) ==
    IF window.utilization < UTILIZATION_THRESHOLD
    THEN TRUE
    ELSE now_s >= window.reset

is_window_available_noreset(window) ==
    window.utilization <= UTILIZATION_THRESHOLD

is_window_available(window) ==
    IF window.utilization <= UTILIZATION_THRESHOLD
    THEN TRUE
    ELSE now_s >= window.reset

is_provider_available(p) ==
    IF ~is_window_available(rate_limit[p].seven_day) THEN FALSE
    ELSE IF ~is_window_available(rate_limit[p].five_hour) THEN FALSE
    ELSE TRUE

\* AppState::get_next_provider: iter().filter(available).find(filter);
\* the filter closure is the set of providers it accepts
get_next_provider(filter) ==
    LET usable == SelectSeq(providers,
                            LAMBDA p : is_provider_available(p) /\ p \in filter)
    IN  IF usable = <<>> THEN <<>> ELSE <<Head(usable)>>

\* a handler (or any caller) asks for a provider
GetNextProvider(filter) ==
    /\ selection' = [filter |-> filter, result |-> get_next_provider(filter),
                     at |-> now_s]
    /\ UNCHANGED <<now_s, rate_limit>>
    /\ UNCHANGED notSelect

\* update_rate_limit: a response of provider p's upstream call installs a
\* whole new snapshot read from its headers
UpdateRateLimit(p, h) ==
    /\ rate_limit' = [rate_limit EXCEPT ![p] =
                        [five_hour |-> RateLimitWindow(h.five_hour.reset,
                                                       h.five_hour.utilization),
                         seven_day |-> RateLimitWindow(h.seven_day.reset,
                                                       h.seven_day.utilization),
                         updated_at |-> now_s]]
    /\ UNCHANGED <<now_s, selection>>
    /\ UNCHANGED notSelect

TickS ==
    /\ now_s < MaxNowS
    /\ now_s' = now_s + 1
    /\ UNCHANGED <<rate_limit, selection>>
    /\ UNCHANGED notSelect

InitSelect ==
    /\ now_s = 0
    /\ rate_limit = [p \in ProviderSet |-> DefaultRateLimitInfo]
    /\ selection = [filter |-> {}, result |-> <<>>, at |-> 0]

NextSelect ==
    \/ \E f \in SUBSET ProviderSet : GetNextProvider(f)
    \/ \E p \in ProviderSet, h \in RateLimitHeaders : UpdateRateLimit(p, h)
    \/ TickS

(***************************************************************************)
(* Authentication middleware (gateway/middleware.rs, gateway/mod.rs)       *)
(***************************************************************************)

\* Strings are sequences of characters; "FF" is a byte outside visible ASCII.
BearerPrefix == <<"B", "e", "a", "r", "e", "r", " ">>

Secrets == {<<"s", "3">>, <<>>}

\* What a client may put after the scheme, or in x-api-key
Credentials ==
    {<<>>, <<"s">>, <<"s", "3">>, <<"s", "4">>, <<"s", "3", "x">>, <<"FF">>}

\* Header values: <<>> is a missing header, <<v>> a header of value v
AuthorizationValues ==
    {<<>>} \cup {<<BearerPrefix \o c>> : c \in Credentials}
           \cup {<<c>> : c \in {<<"s", "3">>, <<"b", "e", "a", "r", "e", "r", " ", "s", "3">>}}

ApiKeyValues == {<<>>} \cup {<<c>> : c \in Credentials \ {<<"s">>}}

\* HeaderValue::to_str: None unless every byte is visible ASCII
to_str(h) ==
    IF h = <<>> THEN <<>>
    ELSE IF \E i \in 1..Len(h[1]) : h[1][i] = "FF" THEN <<>>
    ELSE h

\* str::strip_prefix on an Option: and_then(|v| v.strip_prefix(prefix))
strip_prefix(v, prefix) ==
    IF v = <<>> THEN <<>>
    ELSE IF Len(v[1]) >= Len(prefix) /\ SubSeq(v[1], 1, Len(prefix)) = prefix
    THEN <<SubSeq(v[1], Len(prefix) + 1, Len(v[1]))>>
    ELSE <<>>

RECURSIVE AllEqualFrom(_, _, _)
AllEqualFrom(a, b, i) ==
    IF i > Len(a) THEN TRUE
    ELSE (a[i] = b[i]) /\ AllEqualFrom(a, b, i + 1)

ct_eq_zip(a, b) ==
    IF Len(a) <= Len(b) THEN AllEqualFrom(a, b, 1) ELSE AllEqualFrom(b, a, 1)

\* subtle::ConstantTimeEq for slices: unequal lengths are unequal, and
\* otherwise every byte pair is compared
ct_eq(a, b) ==
    IF Len(a) # Len(b) THEN FALSE ELSE AllEqualFrom(a, b, 1)

\* auth_middleware, lines 28-38: the credential the request presents
provided(req) ==
    LET bearer == strip_prefix(to_str(req.authorization), BearerPrefix)
    IN  IF bearer # <<>> THEN bearer ELSE to_str(req.x_api_key)

\* auth_middleware, lines 40-42
is_valid(req) ==
    IF provided(req) = <<>> THEN FALSE ELSE ct_eq(provided(req)[1], secret)

NoEffects == [selected |-> FALSE, token |-> FALSE, upstream |-> FALSE]

NoReply == [status |-> 0, type |-> "", message |-> ""]

\* a POST /anthropic/v1/messages arrives
Receive(auth, key) ==
    /\ stage = "idle"
    /\ request' = [authorization |-> auth, x_api_key |-> key]
    /\ stage' = "middleware"
    /\ reply' = NoReply
    /\ effects' = NoEffects
    /\ UNCHANGED secret
    /\ UNCHANGED notAuth

\* auth_middleware: run the handler, or answer 401
auth_middleware ==
    /\ stage = "middleware"
    /\ IF is_valid(request)
       THEN /\ stage' = "handler"
            /\ UNCHANGED reply
       ELSE /\ stage' = "responded"
            /\ reply' = [status |-> 401, type |-> "authentication_error",
                         message |-> "Invalid or missing secret"]
    /\ UNCHANGED <<secret, request, effects>>
    /\ UNCHANGED notAuth

\* handle_anthropic_messages: the Json extractor may reject the body; then
\* select a provider, have it fetch a token and POST upstream; each of the
\* three may fail and ends the request with an error response
handle_anthropic_messages ==
    /\ stage = "handler"
    /\ \E bodyOk \in BOOLEAN, found \in BOOLEAN, tokenOk \in BOOLEAN,
          upstreamOk \in BOOLEAN :
         IF ~bodyOk
         THEN /\ found /\ tokenOk /\ upstreamOk
              /\ effects' = NoEffects
              /\ reply' = [status |-> 400, type |-> "rejection", message |-> ""]
         ELSE /\ effects' = [selected |-> TRUE, token |-> found,
                             upstream |-> found /\ tokenOk]
              /\ reply' = IF found /\ tokenOk /\ upstreamOk
                          THEN [status |-> 200, type |-> "message", message |-> ""]
                          ELSE [status |-> 500, type |-> "error", message |-> "cause"]
    /\ stage' = "responded"
    /\ UNCHANGED <<secret, request>>
    /\ UNCHANGED notAuth

\* the response has gone out; the next request may come
Finish ==
    /\ stage = "responded"
    /\ stage' = "idle"
    /\ UNCHANGED <<secret, request, reply, effects>>
    /\ UNCHANGED notAuth

InitAuth ==
    /\ secret \in Secrets
    /\ request = [authorization |-> <<>>, x_api_key |-> <<>>]
    /\ stage = "idle"
    /\ reply = NoReply
    /\ effects = NoEffects

QuietAuth == InitAuth /\ secret = <<"s", "3">>

NextAuth ==
    \/ \E auth \in AuthorizationValues, key \in ApiKeyValues : Receive(auth, key)
    \/ auth_middleware
    \/ handle_anthropic_messages
    \/ Finish

(***************************************************************************)
(* Usage merge (providers/mod.rs, Usage::merge_from)                       *)
(***************************************************************************)
MaxMerges == 2

\* counter values: 0 and two others
CounterValues == {0, 1, 2}

\* struct Usage
Usage(i, o, r, c) ==
    [input_tokens |-> i, output_tokens |-> o,
     cache_read_tokens |-> r, cache_creation_tokens |-> c]

\* Usage::default()
UsageDefault == Usage(0, 0, 0, 0)

Usages ==
    [input_tokens : CounterValues, output_tokens : CounterValues,
     cache_read_tokens : CounterValues, cache_creation_tokens : CounterValues]

merge_from_swapped(self, other) ==
    [input_tokens |->
        IF other.input_tokens > 0 THEN other.input_tokens ELSE self.input_tokens,
     output_tokens |->
        IF other.output_tokens > 0 THEN other.output_tokens ELSE self.output_tokens,
     cache_read_tokens |->
        IF other.cache_creation_tokens > 0 THEN other.cache_creation_tokens
        ELSE self.cache_read_tokens,
     cache_creation_tokens |->
        IF other.cache_read_tokens > 0 THEN other.cache_read_tokens
        ELSE self.cache_creation_tokens]

\* Usage::merge_from: the value of self afterwards
merge_from(self, other) ==
    [input_tokens |->
        IF other.input_tokens > 0 THEN other.input_tokens ELSE self.input_tokens,
     output_tokens |->
        IF other.output_tokens > 0 THEN other.output_tokens ELSE self.output_tokens,
     cache_read_tokens |->
        IF other.cache_read_tokens > 0 THEN other.cache_read_tokens
        ELSE self.cache_read_tokens,
     cache_creation_tokens |->
        IF other.cache_creation_tokens > 0 THEN other.cache_creation_tokens
        ELSE self.cache_creation_tokens]

\* total.merge_from(&other)
MergeFrom(other) ==
    /\ Len(merged) < MaxMerges
    /\ total' = merge_from(total, other)
    /\ merged' = Append(merged, other)
    /\ UNCHANGED notUsage

InitUsage ==
    /\ total = UsageDefault
    /\ merged = <<>>

QuietUsage == InitUsage

NextUsage == \E other \in Usages : MergeFrom(other)

(***************************************************************************)
(* Streaming relay (providers/claude_code/mod.rs, relay_stream)            *)
(*                                                                         *)
(* Bytes are named: "LF" is \n, "a" and "b" are ASCII letters, "C3" "A9"   *)
(* is the two-byte UTF-8 encoding of one character, and "EF" "BF" "BD" is  *)
(* the encoding of U+FFFD.  A data line that carries usage is one symbol   *)
(* (see DataSymbols).                                                      *)
(***************************************************************************)
MaxEvents == 2

Separator == <<"LF", "LF">>

\* U+FFFD REPLACEMENT CHARACTER, as String::from_utf8_lossy inserts it
Replacement == <<"EF", "BF", "BD">>

\* the usage object of an event: each counter <<>> (missing) or <<n>>
JsonUsage(i, o, r, c) ==
    [input_tokens |-> i, output_tokens |-> o,
     cache_read_input_tokens |-> r, cache_creation_input_tokens |-> c]

MessageStart(u) ==
    [type |-> "message_start", message |-> <<[usage |-> <<u>>]>>, usage |-> <<>>]

MessageDelta(u) ==
    [type |-> "message_delta", message |-> <<>>, usage |-> <<u>>]

\* One symbol for each data line, an ASCII text whatever its length:
\*   "S1"  message_start, usage {input 2, output 1, cache_read 0, cache_creation 0}
\*   "S2"  message_start, usage {input 2, output 1, cache_read 1, cache_creation 1}
\*   "D1"  message_delta, usage {output 2}
\*   "D2"  message_delta, usage {input 1, output 2, cache_read 2, cache_creation 2}
\*   "PG"  ping
DataSymbols == {"S1", "S2", "D1", "D2", "PG"}

DataLine(sym) ==
    CASE sym = "S1" -> MessageStart(JsonUsage(<<2>>, <<1>>, <<0>>, <<0>>))
      [] sym = "S2" -> MessageStart(JsonUsage(<<2>>, <<1>>, <<1>>, <<1>>))
      [] sym = "D1" -> MessageDelta(JsonUsage(<<>>, <<2>>, <<>>, <<>>))
      [] sym = "D2" -> MessageDelta(JsonUsage(<<1>>, <<2>>, <<2>>, <<2>>))
      [] OTHER -> [type |-> "ping", message |-> <<>>, usage |-> <<>>]

\* Events upstream may send: one line, one two-byte character, two lines,
\* and the events that carry usage (an event line and its data line)
EventTexts ==
    {<<"a">>, <<"C3", "A9">>, <<"b", "LF", "a">>}
      \cup {<<"a", "LF", d>> : d \in DataSymbols}

TrailerTexts == {<<>>, <<"a">>, <<"a", "LF">>, <<"C3", "A9">>}

EventSeqs == UNION {[1..n -> EventTexts] : n \in 0..MaxEvents}

RECURSIVE Framed(_)
\* the concatenation of the events, each followed by its separator
Framed(evs) ==
    IF evs = <<>> THEN <<>>
    ELSE Head(evs) \o Separator \o Framed(Tail(evs))

RECURSIVE Concat(_)
Concat(seqs) ==
    IF seqs = <<>> THEN <<>> ELSE Head(seqs) \o Concat(Tail(seqs))

RECURSIVE from_utf8_lossy(_)
\* String::from_utf8_lossy over one chunk: a lead byte with no continuation
\* byte after it in the chunk, and a continuation byte with no lead byte
\* before it, each become U+FFFD
from_utf8_lossy(bytes) ==
    IF bytes = <<>> THEN <<>>
    ELSE IF Head(bytes) = "C3"
    THEN IF Len(bytes) >= 2 /\ bytes[2] = "A9"
         THEN <<"C3", "A9">> \o from_utf8_lossy(Tail(Tail(bytes)))
         ELSE Replacement \o from_utf8_lossy(Tail(bytes))
    ELSE IF Head(bytes) = "A9"
    THEN Replacement \o from_utf8_lossy(Tail(bytes))
    ELSE <<Head(bytes)>> \o from_utf8_lossy(Tail(bytes))

\* str::find("\n\n"): the first position of the separator, 0 if there is none
find_separator(text) ==
    LET hits == {i \in 1..(Len(text) - 1) : text[i] = "LF" /\ text[i + 1] = "LF"}
    IN  IF hits = {} THEN 0 ELSE CHOOSE i \in hits : \A j \in hits : i <= j

RECURSIVE lines_from(_, _)
\* str::lines: the pieces between line feeds, a final empty piece dropped
lines_from(text, cur) ==
    IF text = <<>> THEN (IF cur = <<>> THEN <<>> ELSE <<cur>>)
    ELSE IF Head(text) = "LF" THEN <<cur>> \o lines_from(Tail(text), <<>>)
    ELSE lines_from(Tail(text), Append(cur, Head(text)))

lines(text) == lines_from(text, <<>>)

\* parse_sse_data: the JSON of a line that is "data: " and one JSON text
parse_sse_data(line) ==
    IF Len(line) = 1 /\ line[1] \in DataSymbols THEN <<DataLine(line[1])>> ELSE <<>>

\* Option::and_then(|v| v.as_u64()).unwrap_or(0)
as_u64_or_0(field) == IF field = <<>> THEN 0 ELSE field[1]

\* parse_anthropic_usage: <<>> is the Err
parse_anthropic_usage(json) ==
    IF json.usage = <<>> THEN <<>>
    ELSE LET u == json.usage[1] IN
         IF u.input_tokens = <<>> \/ u.output_tokens = <<>> THEN <<>>
         ELSE IF \/ u.input_tokens[1] = 0
                 \/ u.output_tokens[1] = 0
                 \/ as_u64_or_0(u.cache_read_input_tokens) = 0
                 \/ as_u64_or_0(u.cache_creation_input_tokens) = 0
         THEN <<>>
         ELSE <<Usage(u.input_tokens[1], u.output_tokens[1],
                      as_u64_or_0(u.cache_read_input_tokens),
                      as_u64_or_0(u.cache_creation_input_tokens))>>

\* lines 313-327 for one line.  An Err of parse_anthropic_usage holds no
\* Usage: nothing is merged.
tally_line(acc, line) ==
    LET data == parse_sse_data(line) IN
    IF data = <<>> THEN acc
    ELSE LET parsed ==
               IF data[1].type = "message_start"
               THEN (IF data[1].message = <<>> THEN <<>>
                     ELSE parse_anthropic_usage(data[1].message[1]))
               ELSE IF data[1].type = "message_delta"
               THEN parse_anthropic_usage(data[1])
               ELSE <<>>
         IN  IF parsed = <<>> THEN acc ELSE merge_from(acc, parsed[1])

RECURSIVE tally(_, _)
\* lines 312-328: the for loop over the lines of one event
tally(acc, ls) ==
    IF ls = <<>> THEN acc ELSE tally(tally_line(acc, Head(ls)), Tail(ls))

\* lines 302-305: the next chunk arrives and is appended to the buffer
RecvChunk(n) ==
    /\ relay = "reading"
    /\ n <= Len(upstream)
    /\ buffer' = buffer \o from_utf8_lossy(SubSeq(upstream, 1, n))
    /\ upstream' = SubSeq(upstream, n + 1, Len(upstream))
    /\ relay' = "emitting"
    /\ UNCHANGED <<events, trailer, sent, client, failed, usage>>
    /\ UNCHANGED notRelay

EmitEvent_ignores_send_error ==
    /\ relay = "emitting"
    /\ LET pos == find_separator(buffer) IN
       IF pos = 0
       THEN /\ relay' = "reading"
            /\ UNCHANGED <<buffer, sent, usage>>
       ELSE /\ usage' = tally(usage, lines(SubSeq(buffer, 1, pos - 1)))
            /\ sent' = IF client = "gone" THEN sent
                       ELSE Append(sent, SubSeq(buffer, 1, pos - 1) \o Separator)
            /\ buffer' = SubSeq(buffer, pos + 2, Len(buffer))
            /\ relay' = "emitting"
    /\ UNCHANGED <<events, trailer, upstream, client, failed>>
    /\ UNCHANGED notRelay

\* lines 307-336: one turn of the inner loop: tally the usage of the first
\* event of the buffer and send it, or leave the loop when the buffer holds
\* no separator
EmitEvent ==
    /\ relay = "emitting"
    /\ LET pos == find_separator(buffer) IN
       IF pos = 0
       THEN /\ relay' = "reading"
            /\ UNCHANGED <<buffer, sent, usage>>
       ELSE /\ usage' = tally(usage, lines(SubSeq(buffer, 1, pos - 1)))
            /\ IF client = "gone"
               THEN /\ relay' = "done"
                    /\ UNCHANGED <<buffer, sent>>
               ELSE /\ sent' = Append(sent, SubSeq(buffer, 1, pos - 1) \o Separator)
                    /\ buffer' = SubSeq(buffer, pos + 2, Len(buffer))
                    /\ relay' = "emitting"
    /\ UNCHANGED <<events, trailer, upstream, client, failed>>
    /\ UNCHANGED notRelay

\* lines 338-343 and 347-349: upstream yields an error: one synthetic error
\* event, then the remainder of the buffer
UpstreamError ==
    /\ relay = "reading"
    /\ failed' = TRUE
    /\ sent' = IF client = "gone" THEN sent
               ELSE IF buffer = <<>> THEN Append(sent, <<"error">> \o Separator)
               ELSE Append(Append(sent, <<"error">> \o Separator), buffer)
    /\ relay' = "done"
    /\ UNCHANGED <<events, trailer, upstream, buffer, client, usage>>
    /\ UNCHANGED notRelay

\* lines 302 and 347-349: upstream ends: the remainder of the buffer is sent
UpstreamEnd ==
    /\ relay = "reading"
    /\ upstream = <<>>
    /\ sent' = IF client = "gone" \/ buffer = <<>> THEN sent
               ELSE Append(sent, buffer)
    /\ relay' = "done"
    /\ UNCHANGED <<events, trailer, upstream, buffer, client, failed, usage>>
    /\ UNCHANGED notRelay

\* the client goes away: the receiving end of the channel is dropped
ClientDisconnect ==
    /\ client = "connected"
    /\ relay # "done"
    /\ client' = "gone"
    /\ UNCHANGED <<events, trailer, upstream, buffer, sent, relay, failed,
                   usage>>
    /\ UNCHANGED notRelay

InitRelay ==
    /\ events \in EventSeqs
    /\ trailer \in TrailerTexts
    /\ upstream = Framed(events) \o trailer
    /\ buffer = <<>>
    /\ sent = <<>>
    /\ relay = "reading"
    /\ client = "connected"
    /\ failed = FALSE
    /\ usage = UsageDefault

QuietRelay == InitRelay /\ events = <<>> /\ trailer = <<>>

NextRelay ==
    \/ \E n \in 1..Len(upstream) : RecvChunk(n)
    \/ EmitEvent
    \/ UpstreamError
    \/ UpstreamEnd
    \/ ClientDisconnect

(***************************************************************************)
(* Tool-name aliasing (providers/claude_code/tool_spoof.rs)                *)
(*                                                                         *)
(* A name is the sequence of its leading "mcp_" prefixes followed by the   *)
(* rest of the name, which does not start with "mcp_": "mcp_foo" is        *)
(* <<"mcp_", "foo">> and "bash" is <<"bash">>.                             *)
(***************************************************************************)
MaxPrefixes == 2

DEFAULT_PREFIX == "mcp_"

MAPPINGS ==
    << <<"bash", "Bash">>, <<"question", "AskUserQuestion">>,
       <<"read", "Read">>, <<"write", "Write">>, <<"edit", "Edit">>,
       <<"glob", "Glob">>, <<"grep", "Grep">>, <<"task", "Task">>,
       <<"webfetch", "WebFetch">>, <<"todowrite", "TodoWrite">>,
       <<"skill", "Skill">> >>

\* the rests of names: every table entry of either side, and names of no table
Words ==
    {MAPPINGS[i][1] : i \in 1..Len(MAPPINGS)}
      \cup {MAPPINGS[i][2] : i \in 1..Len(MAPPINGS)}
      \cup {"foo", "my_tool"}

RECURSIVE Prefixed(_, _)
Prefixed(k, word) ==
    IF k = 0 THEN <<word>> ELSE <<DEFAULT_PREFIX>> \o Prefixed(k - 1, word)

ToolNames == {Prefixed(k, w) : k \in 0..MaxPrefixes, w \in Words}

starts_with_prefix(n) == Len(n) > 1 /\ Head(n) = DEFAULT_PREFIX

\* to_spoofed
to_spoofed(n) ==
    LET hits == {i \in 1..Len(MAPPINGS) : n = <<MAPPINGS[i][1]>>} IN
    IF hits # {}
    THEN <<MAPPINGS[CHOOSE i \in hits : \A j \in hits : i <= j][2]>>
    ELSE IF starts_with_prefix(n) THEN n
    ELSE <<DEFAULT_PREFIX>> \o n

\* to_original
to_original(n) ==
    LET hits == {i \in 1..Len(MAPPINGS) : n = <<MAPPINGS[i][2]>>} IN
    IF hits # {}
    THEN <<MAPPINGS[CHOOSE i \in hits : \A j \in hits : i <= j][1]>>
    ELSE IF starts_with_prefix(n) THEN Tail(n)
    ELSE n

\* spoof -> transform_name(tool, to_spoofed): the name goes out
Spoof ==
    /\ phase = "original"
    /\ spoofed' = to_spoofed(name)
    /\ phase' = "spoofed"
    /\ UNCHANGED <<name, restored>>
    /\ UNCHANGED notSpoof

\* restore -> transform_name(item, to_original): the name comes back
Restore ==
    /\ phase = "spoofed"
    /\ restored' = to_original(spoofed)
    /\ phase' = "restored"
    /\ UNCHANGED <<name, spoofed>>
    /\ UNCHANGED notSpoof

InitSpoof ==
    /\ name \in ToolNames
    /\ spoofed = <<>>
    /\ restored = <<>>
    /\ phase = "original"

QuietSpoof == InitSpoof /\ name = <<"bash">>

NextSpoof == Spoof \/ Restore

(***************************************************************************)
(* anthropic-beta merge (providers/claude_code/mod.rs, build_beta_value)   *)
(*                                                                         *)
(* A header value is a sequence of symbols: "," and " ", the letters "a"   *)
(* and "b", and one symbol for each base flag: "c" is                      *)
(* claude-code-20250219, "f" fine-grained-tool-streaming-2025-05-14, "i"   *)
(* interleaved-thinking-2025-05-14 and "o" oauth-2025-04-20.  Symbols are  *)
(* ordered as the first bytes of what they stand for.                      *)
(***************************************************************************)
MaxBetaLen == 4

BETA_FLAGS_BASE == << <<"c">>, <<"f">>, <<"i">>, <<"o">> >>

\* the bytes in ascending order
ByteOrder == <<" ", ",", "a", "b", "c", "f", "i", "o">>

Rank(sym) == CHOOSE k \in 1..Len(ByteOrder) : ByteOrder[k] = sym

RECURSIVE str_cmp_lt(_, _)
\* Ord for str, as BTreeSet<&str> uses it: byte-wise lexicographic
str_cmp_lt(x, y) ==
    IF y = <<>> THEN FALSE
    ELSE IF x = <<>> THEN TRUE
    ELSE IF Head(x) # Head(y) THEN Rank(Head(x)) < Rank(Head(y))
    ELSE str_cmp_lt(Tail(x), Tail(y))

RECURSIVE btree_insert(_, _)
\* BTreeSet::insert, the set held as its ascending sequence
btree_insert(set, x) ==
    IF set = <<>> THEN <<x>>
    ELSE IF Head(set) = x THEN set
    ELSE IF str_cmp_lt(x, Head(set)) THEN <<x>> \o set
    ELSE <<Head(set)>> \o btree_insert(Tail(set), x)

RECURSIVE btree_extend(_, _)
btree_extend(set, items) ==
    IF items = <<>> THEN set
    ELSE btree_extend(btree_insert(set, Head(items)), Tail(items))

RECURSIVE split_from(_, _)
\* str::split(','): cur is the piece being read
split_from(text, cur) ==
    IF text = <<>> THEN <<cur>>
    ELSE IF Head(text) = "," THEN <<cur>> \o split_from(Tail(text), <<>>)
    ELSE split_from(Tail(text), Append(cur, Head(text)))

split(text) == split_from(text, <<>>)

RECURSIVE trim_start(_)
trim_start(text) ==
    IF text # <<>> /\ Head(text) = " " THEN trim_start(Tail(text)) ELSE text

RECURSIVE trim_end(_)
trim_end(text) ==
    IF text # <<>> /\ text[Len(text)] = " "
    THEN trim_end(SubSeq(text, 1, Len(text) - 1))
    ELSE text

\* str::trim
trim(text) == trim_end(trim_start(text))

RECURSIVE join(_)
\* [&str]::join(",")
join(items) ==
    IF items = <<>> THEN <<>>
    ELSE IF Len(items) = 1 THEN Head(items)
    ELSE Head(items) \o <<",">> \o join(Tail(items))

\* split(',').map(str::trim).filter(|s| !s.is_empty())
passed_flags_untrimmed(passed) ==
    SelectSeq(split(passed), LAMBDA s : s # <<>>)

passed_flags(passed) ==
    SelectSeq([k \in 1..Len(split(passed)) |-> trim(split(passed)[k])],
              LAMBDA s : s # <<>>)

\* build_beta_value: header is <<>> when the request carried no
\* anthropic-beta header
build_beta_value(header) ==
    LET base == btree_extend(<<>>, BETA_FLAGS_BASE)
        flags == IF header = <<>> THEN base
                 ELSE btree_extend(base, passed_flags(header[1]))
    IN  join(flags)

BetaSymbols == {",", " ", "a", "b", "o"}

\* "a, b ,oauth-2025-04-20,"
BetaExample == <<"a", ",", " ", "b", " ", ",", "o", ",">>

BetaTexts ==
    UNION {[1..n -> BetaSymbols] : n \in 0..MaxBetaLen} \cup {BetaExample}

\* build_headers: the anthropic-beta header of the upstream request
BuildHeaders ==
    /\ beta_value = <<>>
    /\ beta_value' = <<build_beta_value(passthrough)>>
    /\ UNCHANGED passthrough
    /\ UNCHANGED notBeta

InitBeta ==
    /\ passthrough \in {<<>>} \cup {<<t>> : t \in BetaTexts}
    /\ beta_value = <<>>

QuietBeta == InitBeta /\ passthrough = <<>>

NextBeta == BuildHeaders

(***************************************************************************)
(* System-prompt injection (gateway/handlers/messages.rs)                  *)
(*                                                                         *)
(* A JSON string is the sequence of its words.  A JSON value is a record   *)
(* [type, str, items]: a string has its words in str, an array its         *)
(* elements in items.  An element of system is a record [text, type,       *)
(* cache_control] whose text is <<>> (no such field) or <<JSON value>>.    *)
(***************************************************************************)
MaxSystemLen == 2

CLAUDE_CODE_IDENTITY == <<"You", "are", "Claude", "Code">>

JsonString(words) == [type |-> "string", str |-> words]

JsonNumber == [type |-> "number", str |-> <<>>]

\* the element inject_claude_code_prompt builds
IdentityPrompt ==
    [text |-> <<JsonString(<<"You", "are", "Claude", "Code", ",",
                              "Anthropic's", "official", "CLI", "for", "Claude.">>)>>,
     type |-> "text",
     cache_control |-> <<"ephemeral">>]

SystemTexts ==
    { <<>>,
      <<JsonNumber>>,
      <<JsonString(<<>>)>>,
      <<JsonString(<<"hello">>)>>,
      <<JsonString(<<"You", "are", "Claude">>)>>,
      <<JsonString(<<"You", "are", "Claude", "Code", "helper">>)>>,
      <<JsonString(<<"hello", "You", "are", "Claude", "Code">>)>> }

SystemElements ==
    [text : SystemTexts, type : {"text"}, cache_control : {<<>>}]

JsonArray(items) == [type |-> "array", items |-> items]

JsonOther == [type |-> "string", items |-> <<>>]

SystemValues ==
    {JsonOther} \cup
    {JsonArray(items) : items \in UNION {[1..n -> SystemElements] : n \in 0..MaxSystemLen}}

RECURSIVE contains(_, _)
\* str::contains
contains(text, pat) ==
    IF Len(text) < Len(pat) THEN FALSE
    ELSE IF SubSeq(text, 1, Len(pat)) = pat THEN TRUE
    ELSE contains(Tail(text), pat)

\* lines 34-39
needs_injection_any(system_arr) ==
    \A k \in 1..Len(system_arr) :
        IF system_arr[k].text = <<>> THEN TRUE
        ELSE IF system_arr[k].text[1].type # "string" THEN TRUE
        ELSE ~contains(system_arr[k].text[1].str, CLAUDE_CODE_IDENTITY)

needs_injection(system_arr) ==
    IF system_arr = <<>> THEN TRUE
    ELSE IF Head(system_arr).text = <<>> THEN TRUE
    ELSE IF Head(system_arr).text[1].type # "string" THEN TRUE
    ELSE ~contains(Head(system_arr).text[1].str, CLAUDE_CODE_IDENTITY)

inject_claude_code_prompt_push(system) ==
    IF system = <<>> THEN system
    ELSE IF system[1].type # "array" THEN system
    ELSE IF needs_injection(system[1].items)
    THEN <<JsonArray(Append(system[1].items, IdentityPrompt))>>
    ELSE system

\* inject_claude_code_prompt, on the system field of the body
inject_claude_code_prompt(system) ==
    IF system = <<>> THEN system
    ELSE IF system[1].type # "array" THEN system
    ELSE IF needs_injection(system[1].items)
    THEN <<JsonArray(<<IdentityPrompt>> \o system[1].items)>>
    ELSE system

\* handle_anthropic_messages, line 73
InjectPrompt ==
    /\ injected = <<>>
    /\ injected' = <<[system |-> inject_claude_code_prompt(body.system)]>>
    /\ UNCHANGED body
    /\ UNCHANGED notPrompt

InitPrompt ==
    /\ body \in [system : {<<>>} \cup {<<v>> : v \in SystemValues}]
    /\ injected = <<>>

QuietPrompt == InitPrompt /\ body.system = <<>>

NextPrompt == InjectPrompt

(***************************************************************************)
(* Messages handler (gateway/handlers/messages.rs, handlers/mod.rs) and    *)
(* ClaudeCodeProvider::send_request / send_message / send_streaming, for   *)
(* one authenticated request.  get_valid_token is taken by its outcomes    *)
(* (SpecToken has its steps); the providers, their rate-limit snapshots    *)
(* and the clock are those of the selection sub-model.                     *)
(***************************************************************************)
notHandlerSelect ==
    <<tokenVars, authVars, relayVars, spoofVars, betaVars, promptVars, usageVars,
      configVars, dirVars, ingestVars, snapshotVars, forwardVars,
      serveVars, loginVars>>

\* a snapshot that makes a provider unavailable at second 0
ExhaustedRateLimitInfo ==
    [five_hour |-> RateLimitWindow(1, 1000), seven_day |-> RateLimitWindow(0, 0),
     updated_at |-> 0]

TokenErrors == {"load_err", "refresh_err", "persist_err"}

\* Bodies upstream may answer with: id names the text
ApiBodies ==
    { [id |-> "zeros", json |-> TRUE,
       usage |-> <<JsonUsage(<<1>>, <<2>>, <<0>>, <<0>>)>>],
      [id |-> "full", json |-> TRUE,
       usage |-> <<JsonUsage(<<1>>, <<2>>, <<1>>, <<1>>)>>],
      [id |-> "bare", json |-> TRUE, usage |-> <<>>],
      [id |-> "text", json |-> FALSE, usage |-> <<>>] }

ApiStatuses == {200, 429, 529}

\* what reqwest hands back: a transport error, or a response
TransportError ==
    [error |-> TRUE, status |-> 0,
     headers |-> [five_hour |-> [reset |-> 0, utilization |-> 0],
                  seven_day |-> [reset |-> 0, utilization |-> 0]],
     body |-> [id |-> "", json |-> FALSE, usage |-> <<>>]]

ApiResponses ==
    [error : {FALSE}, status : ApiStatuses, headers : RateLimitHeaders,
     body : ApiBodies]

\* StatusCode::is_success
is_success(status) == status >= 200 /\ status < 300

\* an anyhow error: text of the outermost message, and what it embeds
Cause(text, status, detail) ==
    [text |-> text, status |-> status, detail |-> detail]

NoAnswer ==
    [status |-> 0, content_type |-> "", kind |-> "none",
     message |-> Cause("", 0, ""), body |-> ""]

error_response_400(err) ==
    [status |-> 400, content_type |-> "application/json", kind |-> "error",
     message |-> err, body |-> ""]

\* error_response
error_response(err) ==
    [status |-> 500, content_type |-> "application/json", kind |-> "error",
     message |-> err, body |-> ""]

NoProviderMessage == "No provider available. Run 'pluribus login' first."

\* lines 76-80: select a provider, or fail with the login guidance
SelectProvider ==
    /\ step = "select"
    /\ selects' = selects + 1
    /\ LET provider == get_next_provider(ProviderSet) IN
       /\ chosen' = provider
       /\ IF provider = <<>>
          THEN /\ answer' = error_response(Cause(NoProviderMessage, 0, ""))
               /\ step' = "done"
          ELSE /\ step' = "send"
               /\ UNCHANGED answer
    /\ UNCHANGED <<streaming, fetches, calls, token_result, api_response, logged>>
    /\ UNCHANGED notHandler

GetValidToken_stamps(result) ==
    /\ step = "send"
    /\ fetches' = [fetches EXCEPT ![chosen[1]] = @ + 1]
    /\ token_result' = result
    /\ IF result = "ok"
       THEN /\ step' = "post"
            /\ UNCHANGED answer
       ELSE /\ step' = "done"
            /\ answer' = error_response(Cause(result, 0, ""))
    /\ rate_limit' = [rate_limit EXCEPT ![chosen[1]].updated_at = now_s]
    /\ UNCHANGED <<now_s, selection>>
    /\ UNCHANGED <<streaming, selects, chosen, calls, api_response, logged>>
    /\ UNCHANGED notHandlerSelect

\* send_request, line 175: get_valid_token returns a token or an error
GetValidToken(result) ==
    /\ step = "send"
    /\ fetches' = [fetches EXCEPT ![chosen[1]] = @ + 1]
    /\ token_result' = result
    /\ IF result = "ok"
       THEN /\ step' = "post"
            /\ UNCHANGED answer
       ELSE /\ step' = "done"
            /\ answer' = error_response(Cause(result, 0, ""))
    /\ UNCHANGED <<streaming, selects, chosen, calls, api_response, logged>>
    /\ UNCHANGED notHandler

\* send_request, line 177: build_headers rejects the token
BuildHeadersFail ==
    /\ step = "post"
    /\ step' = "done"
    /\ answer' = error_response(Cause("Invalid access token for header", 0, ""))
    /\ UNCHANGED <<streaming, selects, chosen, fetches, calls, token_result,
                   api_response, logged>>
    /\ UNCHANGED notHandler

SendRequest_retries(resp) ==
    /\ step = "post"
    /\ calls' = [calls EXCEPT ![chosen[1]] = @ + 1]
    /\ api_response' = <<resp>>
    /\ IF resp.error
       THEN /\ IF calls[chosen[1]] = 0
               THEN /\ step' = "post"
                    /\ UNCHANGED answer
               ELSE /\ step' = "done"
                    /\ answer' = error_response(
                          Cause("Failed to send request to Claude API", 0, "transport"))
            /\ UNCHANGED selectVars
       ELSE /\ rate_limit' = [rate_limit EXCEPT ![chosen[1]] =
                                [five_hour |-> RateLimitWindow(resp.headers.five_hour.reset,
                                                               resp.headers.five_hour.utilization),
                                 seven_day |-> RateLimitWindow(resp.headers.seven_day.reset,
                                                               resp.headers.seven_day.utilization),
                                 updated_at |-> now_s]]
            /\ UNCHANGED <<now_s, selection>>
            /\ IF ~is_success(resp.status)
               THEN /\ step' = "done"
                    /\ answer' = error_response(
                          Cause("Claude API error", resp.status, resp.body.id))
               ELSE /\ step' = "respond"
                    /\ UNCHANGED answer
    /\ UNCHANGED notHandlerSelect
    /\ UNCHANGED <<streaming, selects, chosen, fetches, token_result, logged>>

\* send_request, lines 181-198: the POST, update_rate_limit on any response,
\* and the error for a transport failure or a status that is not 2xx
SendRequest(resp) ==
    /\ step = "post"
    /\ calls' = [calls EXCEPT ![chosen[1]] = @ + 1]
    /\ api_response' = <<resp>>
    /\ IF resp.error
       THEN /\ step' = "done"
            /\ answer' = error_response(
                  Cause("Failed to send request to Claude API", 0, "transport"))
            /\ UNCHANGED selectVars
       ELSE /\ rate_limit' = [rate_limit EXCEPT ![chosen[1]] =
                                [five_hour |-> RateLimitWindow(resp.headers.five_hour.reset,
                                                               resp.headers.five_hour.utilization),
                                 seven_day |-> RateLimitWindow(resp.headers.seven_day.reset,
                                                               resp.headers.seven_day.utilization),
                                 updated_at |-> now_s]]
            /\ UNCHANGED <<now_s, selection>>
            /\ IF ~is_success(resp.status)
               THEN /\ step' = "done"
                    /\ answer' = error_response(
                          Cause("Claude API error", resp.status, resp.body.id))
               ELSE /\ step' = "respond"
                    /\ UNCHANGED answer
    /\ UNCHANGED notHandlerSelect
    /\ UNCHANGED <<streaming, selects, chosen, fetches, token_result, logged>>

\* Result::unwrap_or_default
unwrap_or_default(parsed) == IF parsed = <<>> THEN UsageDefault ELSE parsed[1]

\* send_streaming lines 229-240 and the handler's lines 96-107: the relay is
\* spawned and the response carries upstream's status
RespondStreaming ==
    /\ step = "respond"
    /\ streaming
    /\ answer' = [status |-> api_response[1].status,
                  content_type |-> "text/event-stream", kind |-> "stream",
                  message |-> Cause("", 0, ""), body |-> ""]
    /\ step' = "done"
    /\ UNCHANGED <<streaming, selects, chosen, fetches, calls, token_result,
                   api_response, logged>>
    /\ UNCHANGED notHandler

\* send_message lines 220-223 and the handler's lines 110-131: the body is
\* parsed, its usage logged, and it is returned with status 200
RespondUnit ==
    /\ step = "respond"
    /\ ~streaming
    /\ IF ~api_response[1].body.json
       THEN /\ answer' = error_response(
                   Cause("Failed to parse Claude API response", 0, "json"))
            /\ UNCHANGED logged
       ELSE /\ logged' = <<unwrap_or_default(parse_anthropic_usage(api_response[1].body))>>
            /\ answer' = [status |-> 200, content_type |-> "application/json",
                          kind |-> "json", message |-> Cause("", 0, ""),
                          body |-> api_response[1].body.id]
    /\ step' = "done"
    /\ UNCHANGED <<streaming, selects, chosen, fetches, calls, token_result,
                   api_response>>
    /\ UNCHANGED notHandler

InitHandler ==
    /\ step = "select"
    /\ streaming \in BOOLEAN
    /\ selects = 0
    /\ chosen = <<>>
    /\ fetches = [p \in ProviderSet |-> 0]
    /\ calls = [p \in ProviderSet |-> 0]
    /\ token_result = "none"
    /\ api_response = <<>>
    /\ answer = NoAnswer
    /\ logged = <<>>

QuietHandler == InitHandler /\ streaming = FALSE

\* the snapshots a request may find: each provider fresh or exhausted, at
\* second 0 or one second later
InitHandlerSelect ==
    /\ now_s \in {0, 1}
    /\ rate_limit \in [ProviderSet -> {DefaultRateLimitInfo, ExhaustedRateLimitInfo}]
    /\ selection = [filter |-> {}, result |-> <<>>, at |-> 0]

NextHandler ==
    \/ SelectProvider
    \/ \E result \in {"ok"} \cup TokenErrors : GetValidToken(result)
    \/ BuildHeadersFail
    \/ \E resp \in ApiResponses \cup {TransportError} : SendRequest(resp)
    \/ RespondStreaming
    \/ RespondUnit

(***************************************************************************)
(* Provider files: save and load of src/providers/config.rs.  A string is  *)
(* a sequence of symbols, a path a sequence of components, a TOML text a   *)
(* sequence of lines: <<key, value>> for a pair, <<"[table]">> for a table *)
(* header.                                                                 *)
(***************************************************************************)
ProviderType == {"Anthropic", "OpenAI", "ClaudeCode", "Codex"}

\* serde's rename_all = "snake_case" of a variant name
snake_case(variant) ==
    CASE variant = "Anthropic" -> "anthropic"
      [] variant = "OpenAI" -> "open_a_i"
      [] variant = "ClaudeCode" -> "claude_code"
      [] variant = "Codex" -> "codex"

\* AuthConfig::OAuth(OAuthConfig { .. }) and AuthConfig::Api(ApiConfig { .. })
OAuth(at, rt, exp, scopes) ==
    <<"OAuth", [access_token |-> at, refresh_token |-> rt, expires_at |-> exp,
                scopes |-> scopes]>>

Api(base_url, api_key) ==
    <<"Api", [base_url |-> base_url, api_key |-> api_key]>>

ProviderConfig(stem, provider_type, auth) ==
    [name |-> stem, provider_type |-> provider_type, auth |-> auth]

TomlFile(provider_type, oauth_table, api_table) ==
    [provider_type |-> provider_type, oauth |-> oauth_table, api |-> api_table]

\* the providers directory handed to save and load_by_name
ProvidersDir == << <<"providers">> >>

\* provider names: a plain one, one with a dot, one with a path separator
\* and the empty one
Names == { <<"w">>, <<"a", ".", "b">>, <<"a", "/", "b">>, <<>> }

AuthConfigs ==
    { OAuth("t1", "r1", 5, <<>>), OAuth("t2", "r2", 0, <<"s1", "s2">>),
      Api("u", "k") }

ProviderConfigs ==
    { ProviderConfig(n, t, a) : n \in Names, t \in ProviderType, a \in AuthConfigs }

\* Path::components of a relative path text: the pieces between "/"
RECURSIVE components_from(_, _)
components_from(text, cur) ==
    IF text = <<>> THEN (IF cur = <<>> THEN <<>> ELSE <<cur>>)
    ELSE IF Head(text) = "/"
         THEN (IF cur = <<>> THEN <<>> ELSE <<cur>>) \o components_from(Tail(text), <<>>)
         ELSE components_from(Tail(text), Append(cur, Head(text)))

components(text) == components_from(text, <<>>)

\* dir.join(format!("{}.toml", name)); an absolute name replaces dir
file_path(dir, stem) ==
    LET file == stem \o <<".", "toml">>
    IN  IF Head(file) = "/" THEN components(file) ELSE dir \o components(file)

parent(path) == SubSeq(path, 1, Len(path) - 1)

\* every directory create_dir_all(dir) makes sure of
ancestors(dir) == { SubSeq(dir, 1, k) : k \in 1..Len(dir) }

\* Path::file_stem: the last component up to its last ".", the whole
\* component when it has no "." or only a leading one; <<>> is None
file_stem(path) ==
    IF path = <<>> THEN <<>>
    ELSE LET file == path[Len(path)]
             dots == {i \in 1..Len(file) : file[i] = "."}
         IN  IF dots = {} THEN <<file>>
             ELSE LET last == CHOOSE i \in dots : \A j \in dots : j <= i
                  IN  IF last = 1 THEN <<file>> ELSE <<SubSeq(file, 1, last - 1)>>

\* toml::to_string_pretty(&TomlFile): the type pair, then the table of
\* whichever section is Some; a None section writes nothing
to_string_pretty(file) ==
    << <<"type", snake_case(file.provider_type)>> >>
    \o (IF file.oauth = <<>> THEN <<>>
        ELSE << <<"[oauth]">>,
                <<"access_token", file.oauth[1].access_token>>,
                <<"refresh_token", file.oauth[1].refresh_token>>,
                <<"expires_at", file.oauth[1].expires_at>>,
                <<"scopes", file.oauth[1].scopes>> >>)
    \o (IF file.api = <<>> THEN <<>>
        ELSE << <<"[api]">>,
                <<"base_url", file.api[1].base_url>>,
                <<"api_key", file.api[1].api_key>> >>)

is_header(line) == Len(line) = 1

\* the pairs of a table: the lines after its header up to the next header;
\* the root table is the lines before the first header.  <<>> when the
\* header is absent, <<pairs>> otherwise.
table(text, header) ==
    LET at == {i \in 1..Len(text) : is_header(text[i]) /\ text[i][1] = header}
    IN  IF at = {} THEN <<>>
        ELSE LET h == CHOOSE i \in at : TRUE
                 nexts == {i \in (h + 1)..Len(text) : is_header(text[i])}
                 stop == IF nexts = {} THEN Len(text) + 1
                         ELSE CHOOSE i \in nexts : \A j \in nexts : i <= j
             IN  <<SubSeq(text, h + 1, stop - 1)>>

root_table(text) ==
    LET hs == {i \in 1..Len(text) : is_header(text[i])}
        stop == IF hs = {} THEN Len(text) + 1
                ELSE CHOOSE i \in hs : \A j \in hs : i <= j
    IN  SubSeq(text, 1, stop - 1)

\* the value of a key among pairs: <<>> or <<value>>
get(pairs, key) ==
    LET at == {i \in 1..Len(pairs) : pairs[i][1] = key}
    IN  IF at = {} THEN <<>> ELSE <<pairs[CHOOSE i \in at : TRUE][2]>>

\* Deserialize for ProviderType: <<>> for a string that names no variant
parse_provider_type(tag) ==
    LET hit == {t \in ProviderType : snake_case(t) = tag}
    IN  IF hit = {} THEN <<>> ELSE <<CHOOSE t \in hit : TRUE>>

\* Deserialize for Option<OAuthConfig>: <<"absent">>, <<"invalid">> or
\* <<"some", config>>; scopes has #[serde(default)]
parse_oauth(text) ==
    LET t == table(text, "[oauth]")
    IN  IF t = <<>> THEN <<"absent">>
        ELSE LET at == get(t[1], "access_token")
                 rt == get(t[1], "refresh_token")
                 exp == get(t[1], "expires_at")
                 sc == get(t[1], "scopes")
             IN  IF at = <<>> \/ rt = <<>> \/ exp = <<>> THEN <<"invalid">>
                 ELSE <<"some", [access_token |-> at[1], refresh_token |-> rt[1],
                                  expires_at |-> exp[1],
                                  scopes |-> IF sc = <<>> THEN <<>> ELSE sc[1]]>>

parse_api(text) ==
    LET t == table(text, "[api]")
    IN  IF t = <<>> THEN <<"absent">>
        ELSE LET url == get(t[1], "base_url")
                 key == get(t[1], "api_key")
             IN  IF url = <<>> \/ key = <<>> THEN <<"invalid">>
                 ELSE <<"some", [base_url |-> url[1], api_key |-> key[1]]>>

\* a text parses as TOML when every line is a pair or a table header
well_formed(text) == \A i \in 1..Len(text) : Len(text[i]) \in {1, 2}

\* toml::from_str::<TomlFile>: <<>> (Err) or <<file>>
from_str(text) ==
    LET tag == get(root_table(text), "type")
        pt == IF tag = <<>> THEN <<>> ELSE parse_provider_type(tag[1])
        o == parse_oauth(text)
        a == parse_api(text)
    IN  IF ~well_formed(text) \/ pt = <<>> \/ o[1] = "invalid" \/ a[1] = "invalid"
        THEN <<>>
        ELSE <<TomlFile(pt[1], IF o[1] = "absent" THEN <<>> ELSE <<o[2]>>,
                               IF a[1] = "absent" THEN <<>> ELSE <<a[2]>>)>>

MaxSaves == 2

\* save(dir, name, config) as <<directories, files, Ok?>>: create_dir_all,
\* the TomlFile of the config, fs::write to dir/{name}.toml (which fails
\* when the file's directory is missing and replaces an existing file)
save(dirs, files, dir, stem, config) ==
    LET made == dirs \cup ancestors(dir)
        file == TomlFile(config.provider_type,
                         IF config.auth[1] = "OAuth" THEN <<config.auth[2]>> ELSE <<>>,
                         IF config.auth[1] = "Api" THEN <<config.auth[2]>> ELSE <<>>)
        path == file_path(dir, stem)
        content == to_string_pretty(file)
    IN  IF parent(path) \in made /\ path \notin made
        THEN <<made, (path :> content) @@ files, TRUE>>
        ELSE <<made, files, FALSE>>

\* the value of a one-element set (which binds a value computed once)
only(S) == CHOOSE y \in S : TRUE

\* load(path): <<>> (Err) or <<config>>; a file that cannot be read and a
\* text that does not parse are both Err
load(files, path) ==
    only({ IF stem = <<>> \/ file = <<>> THEN <<>>
           ELSE IF file[1].oauth # <<>>
                THEN <<ProviderConfig(stem[1], file[1].provider_type,
                                      <<"OAuth", file[1].oauth[1]>>)>>
           ELSE IF file[1].api # <<>>
                THEN <<ProviderConfig(stem[1], file[1].provider_type,
                                      <<"Api", file[1].api[1]>>)>>
           ELSE <<>> :
           stem \in {file_stem(path)},
           file \in {IF path \in DOMAIN files THEN from_str(files[path]) ELSE <<>>} })

load_by_name(files, dir, stem) == load(files, file_path(dir, stem))

\* a caller saves a config under the config's own name
Save(config) ==
    /\ saves < MaxSaves
    /\ \E r \in {save(fs_dirs, fs_files, ProvidersDir, config.name, config)} :
           /\ fs_dirs' = r[1]
           /\ fs_files' = r[2]
           /\ save_ok' = r[3]
    /\ saved' = <<config>>
    /\ loaded' = <<>>
    /\ saves' = saves + 1
    /\ UNCHANGED notConfig

\* the same caller loads by the name it saved under
LoadSaved ==
    /\ saved # <<>>
    /\ loaded = <<>>
    /\ loaded' = <<load_by_name(fs_files, ProvidersDir, saved[1].name)>>
    /\ UNCHANGED <<fs_dirs, fs_files, saved, save_ok, saves>>
    /\ UNCHANGED notConfig

\* the providers directory may be missing, present, or hold a directory "a"
InitConfig ==
    /\ fs_dirs \in { {}, {ProvidersDir}, {ProvidersDir, ProvidersDir \o << <<"a">> >>} }
    /\ fs_files = <<>>
    /\ saved = <<>>
    /\ save_ok = FALSE
    /\ loaded = <<>>
    /\ saves = 0

QuietConfig ==
    /\ fs_dirs = {}
    /\ fs_files = <<>>
    /\ saved = <<>>
    /\ save_ok = FALSE
    /\ loaded = <<>>
    /\ saves = 0

NextConfig ==
    \/ \E config \in ProviderConfigs : Save(config)
    \/ LoadSaved

(***************************************************************************)
(* Provider directory: load, load_all and update_oauth of                  *)
(* src/providers/config.rs over files that anyone may have written.        *)
(***************************************************************************)
OAuthLines ==
    << <<"[oauth]">>, <<"access_token", "t1">>, <<"refresh_token", "r1">>,
       <<"expires_at", 5>>, <<"scopes", <<"s1">>>> >>

ApiLines == << <<"[api]">>, <<"base_url", "u">>, <<"api_key", "k">> >>

TextOAuth == << <<"type", "claude_code">> >> \o OAuthLines

\* an [oauth] table without scopes
TextOAuthNoScopes == << <<"type", "codex">> >> \o SubSeq(OAuthLines, 1, 4)

\* an [oauth] table without refresh_token and expires_at
TextOAuthPartial == << <<"type", "claude_code">> >> \o SubSeq(OAuthLines, 1, 2)

TextApi == << <<"type", "anthropic">> >> \o ApiLines

TextNeither == << <<"type", "claude_code">> >>

TextBoth == << <<"type", "claude_code">> >> \o OAuthLines \o ApiLines

TextNoType == ApiLines

TextBadType == << <<"type", "gemini">> >> \o ApiLines

\* a line that is neither a pair nor a table header
TextGarbage == << <<"type", "claude_code">>, <<"?", "?", "?">> >> \o ApiLines

TomlTexts ==
    << TextOAuth, TextOAuthNoScopes, TextOAuthPartial, TextApi, TextNeither,
       TextBoth, TextNoType, TextBadType, TextGarbage >>

\* the names load_by_name and update_oauth are called with; no file "z.toml"
\* is ever there
DirNames == { <<"w">>, <<"x">>, <<"z">> }

NotesPath == ProvidersDir \o << <<"n", ".", "txt">> >>

\* the credentials update_oauth is called with
NewCredentials ==
    { [access_token |-> "t9", refresh_token |-> "r9", expires_at |-> 9,
       scopes |-> sc] : sc \in { <<>>, <<"s9">> } }

\* Path::extension: what follows the last "." of the last component; <<>>
\* (None) when there is no "." or only a leading one
extension(path) ==
    IF path = <<>> THEN <<>>
    ELSE LET file == path[Len(path)]
             dots == {i \in 1..Len(file) : file[i] = "."}
         IN  IF dots = {} THEN <<>>
             ELSE LET last == CHOOSE i \in dots : \A j \in dots : j <= i
                  IN  IF last = 1 THEN <<>>
                      ELSE <<SubSeq(file, last + 1, Len(file))>>

\* fs::read_dir(dir): the files directly in dir
read_dir(files, dir) == {p \in DOMAIN files : parent(p) = dir}

\* the orders in which read_dir may yield a set of entries
Orders(entries) ==
    {s \in [1..Cardinality(entries) -> entries] :
        \A i, j \in 1..Cardinality(entries) : s[i] = s[j] => i = j}

\* the loop of load_all over the entries in the order given
RECURSIVE load_each_stops(_, _)
load_each_stops(files, order) ==
    IF order = <<>> THEN <<>>
    ELSE LET path == Head(order)
         IN  IF extension(path) = << <<"toml">> >>
             THEN (IF load(files, path) = <<>> THEN <<>>
                   ELSE load(files, path) \o load_each_stops(files, Tail(order)))
             ELSE load_each_stops(files, Tail(order))

RECURSIVE load_each(_, _)
load_each(files, order) ==
    IF order = <<>> THEN <<>>
    ELSE LET path == Head(order)
             rest == load_each(files, Tail(order))
         IN  IF extension(path) = << <<"toml">> >>
             THEN load(files, path) \o rest
             ELSE rest

\* load_all(dir), read_dir yielding the entries in `order`
load_all(present, files, order) ==
    IF ~present THEN <<>> ELSE load_each(files, order)

\* update_oauth that writes the record back under the default type
update_oauth_resets_type(dirs, files, dir, stem, cred) ==
    only({ IF config = <<>> THEN <<dirs, files, FALSE>>
           ELSE save(dirs, files, dir, stem,
                     ProviderConfig(config[1].name, "ClaudeCode",
                                    <<"OAuth", cred>>)) :
           config \in {load_by_name(files, dir, stem)} })

\* update_oauth(dir, name, oauth) as <<directories, files, Ok?>>
update_oauth(dirs, files, dir, stem, cred) ==
    only({ IF config = <<>> THEN <<dirs, files, FALSE>>
           ELSE save(dirs, files, dir, stem,
                     ProviderConfig(config[1].name, config[1].provider_type,
                                    <<"OAuth", cred>>)) :
           config \in {load_by_name(files, dir, stem)} })

MaxOps == 2

\* the directories of the file system, as save reads them
dir_set == IF dir_present THEN {ProvidersDir} ELSE {}

\* load_by_name(dir, name)
LoadFile(stem) ==
    /\ ops < MaxOps
    /\ last_op' = "load"
    /\ last_arg' = stem
    /\ last_cred' = <<>>
    /\ last_result' = load_by_name(dir_files, ProvidersDir, stem)
    /\ files_before' = dir_files
    /\ ops' = ops + 1
    /\ UNCHANGED <<dir_present, dir_files>>
    /\ UNCHANGED notDir

\* load_all(dir)
LoadAll ==
    /\ ops < MaxOps
    /\ \E order \in Orders(read_dir(dir_files, ProvidersDir)) :
         last_result' = load_all(dir_present, dir_files, order)
    /\ last_op' = "load_all"
    /\ last_arg' = <<>>
    /\ last_cred' = <<>>
    /\ files_before' = dir_files
    /\ ops' = ops + 1
    /\ UNCHANGED <<dir_present, dir_files>>
    /\ UNCHANGED notDir

\* update_oauth(dir, name, oauth); last_result is <<>> (Err) or <<"ok">>
UpdateOauthFile(stem, cred) ==
    /\ ops < MaxOps
    /\ \E r \in {update_oauth(dir_set, dir_files, ProvidersDir, stem, cred)} :
           /\ dir_present' = (ProvidersDir \in r[1])
           /\ dir_files' = r[2]
           /\ last_result' = IF r[3] THEN <<"ok">> ELSE <<>>
    /\ last_op' = "update_oauth"
    /\ last_arg' = stem
    /\ last_cred' = <<cred>>
    /\ files_before' = dir_files
    /\ ops' = ops + 1
    /\ UNCHANGED notDir

\* the file of provider `stem`, when text number i is in it (0: no file)
FileAt(stem, i) ==
    IF i = 0 THEN <<>> ELSE (file_path(ProvidersDir, stem) :> TomlTexts[i])

\* a directory that is missing, or holds any text under w.toml and x.toml,
\* with or without a file that is not a *.toml
InitDir ==
    /\ dir_present \in BOOLEAN
    /\ \E w, x \in 0..Len(TomlTexts), n \in BOOLEAN :
         dir_files = IF ~dir_present THEN <<>>
                     ELSE FileAt(<<"w">>, w) @@ FileAt(<<"x">>, x)
                          @@ (IF n THEN (NotesPath :> TextApi) ELSE <<>>)
    /\ last_op = "none"
    /\ last_arg = <<>>
    /\ last_cred = <<>>
    /\ last_result = <<>>
    /\ files_before = <<>>
    /\ ops = 0

QuietDir ==
    /\ dir_present = FALSE
    /\ dir_files = <<>>
    /\ last_op = "none"
    /\ last_arg = <<>>
    /\ last_cred = <<>>
    /\ last_result = <<>>
    /\ files_before = <<>>
    /\ ops = 0

NextDir ==
    \/ \E stem \in DirNames : LoadFile(stem)
    \/ LoadAll
    \/ \E stem \in DirNames, cred \in NewCredentials : UpdateOauthFile(stem, cred)

(***************************************************************************)
(* Rate-limit ingestion: update_rate_limit and its call in send_request    *)
(* (src/providers/claude_code/mod.rs), with the headers as upstream sends  *)
(* them.  A header value is <<>> (missing) or <<characters>>.              *)
(***************************************************************************)
notIngestSelect ==
    <<tokenVars, authVars, relayVars, spoofVars, betaVars, promptVars, usageVars,
      handlerVars, configVars, dirVars, snapshotVars, forwardVars,
      serveVars, loginVars>>

Digits == <<"0", "1", "2", "3", "4", "5", "6", "7", "8", "9">>

is_digit(c) == \E d \in 1..10 : Digits[d] = c

digit_value(c) == (CHOOSE d \in 1..10 : Digits[d] = c) - 1

\* the number a run of digits writes
RECURSIVE digits_value(_, _)
digits_value(text, acc) ==
    IF text = <<>> THEN acc
    ELSE digits_value(Tail(text), acc * 10 + digit_value(Head(text)))

all_digits(text) == \A i \in 1..Len(text) : is_digit(text[i])

\* str::parse::<u64>: digits, with an optional leading "+"; <<>> is Err
parse_u64(text) ==
    LET digits == IF text # <<>> /\ Head(text) = "+" THEN Tail(text) ELSE text
    IN  IF digits = <<>> \/ ~all_digits(digits) THEN <<>>
        ELSE <<digits_value(digits, 0)>>

\* str::parse::<f64> of a plain decimal (digits, optionally "." and up to
\* three more digits), in thousandths; <<>> is Err
parse_f64(text) ==
    LET dots == {i \in 1..Len(text) : text[i] = "."}
        dot == IF dots = {} THEN Len(text) + 1 ELSE CHOOSE i \in dots : TRUE
        whole == SubSeq(text, 1, dot - 1)
        frac == SubSeq(text, dot + 1, Len(text))
        scale == CASE Len(frac) = 0 -> 1000 [] Len(frac) = 1 -> 100
                   [] Len(frac) = 2 -> 10 [] OTHER -> 1
    IN  IF Cardinality(dots) > 1 \/ ~all_digits(whole) \/ ~all_digits(frac)
           \/ (whole = <<>> /\ frac = <<>>) \/ Len(frac) > 3
        THEN <<>>
        ELSE <<digits_value(whole, 0) * 1000 + digits_value(frac, 0) * scale>>

\* the closures of update_rate_limit
get_str(headers, h) == to_str(headers[h])

get_u64(headers, h) ==
    LET s == get_str(headers, h)
        n == IF s = <<>> THEN <<>> ELSE parse_u64(s[1])
    IN  IF n = <<>> THEN 0 ELSE n[1]

get_f64(headers, h) ==
    LET s == get_str(headers, h)
        n == IF s = <<>> THEN <<>> ELSE parse_f64(s[1])
    IN  IF n = <<>> THEN 0 ELSE n[1]

\* unwrap_or_default().to_string() of a status header
get_status(headers, h) ==
    LET s == get_str(headers, h) IN IF s = <<>> THEN <<>> ELSE s[1]

\* update_rate_limit, lines 103-122: the snapshot built from the headers
rate_limit_info(headers, now) ==
    [five_hour |-> [status |-> get_status(headers, "anthropic-ratelimit-unified-5h-status"),
                    reset |-> get_u64(headers, "anthropic-ratelimit-unified-5h-reset"),
                    utilization |-> get_f64(headers, "anthropic-ratelimit-unified-5h-utilization")],
     seven_day |-> [status |-> get_status(headers, "anthropic-ratelimit-unified-7d-status"),
                    reset |-> get_u64(headers, "anthropic-ratelimit-unified-7d-reset"),
                    utilization |-> get_f64(headers, "anthropic-ratelimit-unified-7d-utilization")],
     updated_at |-> now]

MaxResponses == 2

\* What one window's three headers (status, reset, utilization) may hold:
\* nothing; an exhausted window that resets at second 2; a half-used one; a
\* status that is not visible ASCII with a reset and a utilization that are
\* not numbers; a reset written with a sign over a just-exhausted window.
WindowValues ==
    { <<<<>>, <<>>, <<>>>>,
      <<<<<<"rejected">>>>, <<<<"2">>>>, <<<<"0", ".", "9", "9", "6">>>>>>,
      <<<<<<"allowed">>>>, <<<<"1">>>>, <<<<"0", ".", "5">>>>>>,
      <<<<<<"FF">>>>, <<<<"-", "1">>>>, <<<<"x">>>>>>,
      <<<<<<"allowed_warning">>>>, <<<<"+", "1">>>>, <<<<"1">>>>>> }

\* the header map of a response
HeaderMap(w5, w7) ==
    [h \in {"anthropic-ratelimit-unified-5h-status",
            "anthropic-ratelimit-unified-5h-reset",
            "anthropic-ratelimit-unified-5h-utilization",
            "anthropic-ratelimit-unified-7d-status",
            "anthropic-ratelimit-unified-7d-reset",
            "anthropic-ratelimit-unified-7d-utilization"} |->
        CASE h = "anthropic-ratelimit-unified-5h-status" -> w5[1]
          [] h = "anthropic-ratelimit-unified-5h-reset" -> w5[2]
          [] h = "anthropic-ratelimit-unified-5h-utilization" -> w5[3]
          [] h = "anthropic-ratelimit-unified-7d-status" -> w7[1]
          [] h = "anthropic-ratelimit-unified-7d-reset" -> w7[2]
          [] OTHER -> w7[3]]

HeaderMaps == {HeaderMap(w5, w7) : w5 \in WindowValues, w7 \in WindowValues}

Statuses == {200, 429, 529}

\* send_request, lines 181-196, where upstream answered but only a 2xx
\* answer reaches update_rate_limit
Response_success_only(p, status, headers) ==
    /\ responses < MaxResponses
    /\ responses' = responses + 1
    /\ received' = <<[from |-> p, status |-> status, headers |-> headers]>>
    /\ rate_limit' = IF is_success(status)
                     THEN [rate_limit EXCEPT
                             ![p] = rate_limit_info(headers, now_s)]
                     ELSE rate_limit
    /\ UNCHANGED <<now_s, selection>>
    /\ UNCHANGED notIngestSelect

\* send_request, lines 181-196, where upstream answered: update_rate_limit
\* runs on the response's headers before the status is looked at
Response(p, status, headers) ==
    /\ responses < MaxResponses
    /\ responses' = responses + 1
    /\ received' = <<[from |-> p, status |-> status, headers |-> headers]>>
    /\ rate_limit' = [rate_limit EXCEPT ![p] = rate_limit_info(headers, now_s)]
    /\ UNCHANGED <<now_s, selection>>
    /\ UNCHANGED notIngestSelect

\* send_request where send() fails: the "?" returns before update_rate_limit
TransportFailure(p) ==
    /\ responses < MaxResponses
    /\ responses' = responses + 1
    /\ received' = <<>>
    /\ UNCHANGED selectVars
    /\ UNCHANGED notIngestSelect

\* RateLimitInfo::default(), with the status strings
InitIngest ==
    /\ received = <<>>
    /\ responses = 0
    /\ now_s = 0
    /\ rate_limit = [p \in ProviderSet |->
                       [five_hour |-> [status |-> <<>>, reset |-> 0,
                                       utilization |-> 0],
                        seven_day |-> [status |-> <<>>, reset |-> 0,
                                       utilization |-> 0],
                        updated_at |-> 0]]
    /\ selection = [filter |-> {}, result |-> <<>>, at |-> 0]

QuietIngest ==
    /\ received = <<>>
    /\ responses = 0

NextIngest ==
    \/ \E p \in ProviderSet, status \in Statuses, headers \in HeaderMaps :
          Response(p, status, headers)
    \/ \E p \in ProviderSet : TransportFailure(p)
    \/ \E f \in {ProviderSet, {"A"}} : GetNextProvider(f)
    \/ TickS

(***************************************************************************)
(* Snapshot coherence: the RwLock<RateLimitInfo> of a provider, written by *)
(* update_rate_limit and read by rate_limit_info                           *)
(* (src/providers/claude_code/mod.rs).  A struct assignment and a clone    *)
(* move the three fields one after the other.                              *)
(***************************************************************************)
MaxReads == 2

\* the threads handling a response of the provider, and the response of each
Responders == {"r1", "r2"}

ResponseOf == [t \in Responders |-> IF t = "r1" THEN 1 ELSE 2]

\* the threads reading the snapshot: a selection and the health endpoint
Readers == {"selection", "health"}

Fields == <<"five_hour", "seven_day", "updated_at">>

next_field(f) ==
    CASE f = "five_hour" -> "seven_day"
      [] f = "seven_day" -> "updated_at"
      [] OTHER -> "unlock"

\* update_rate_limit, lines 103-122: the new snapshot is built in a local
BuildInfo(t) ==
    /\ at_line[t] = "build"
    /\ built' = [built EXCEPT ![t] = [f \in {"five_hour", "seven_day",
                                            "updated_at"} |-> ResponseOf[t]]]
    /\ at_line' = [at_line EXCEPT ![t] = "write"]
    /\ UNCHANGED <<rw_lock, guarded, cloned, observed, reads>>
    /\ UNCHANGED notSnapshot

\* self.rate_limit.write() that is granted while the lock is read
AcquireWrite_among_readers(t) ==
    /\ at_line[t] = "write"
    /\ rw_lock.writer = <<>>
    /\ rw_lock' = [rw_lock EXCEPT !.writer = <<t>>]
    /\ at_line' = [at_line EXCEPT ![t] = "five_hour"]
    /\ UNCHANGED <<guarded, built, cloned, observed, reads>>
    /\ UNCHANGED notSnapshot

\* self.rate_limit.write(): granted when no thread holds the lock
AcquireWrite(t) ==
    /\ at_line[t] = "write"
    /\ rw_lock.writer = <<>>
    /\ rw_lock.readers = {}
    /\ rw_lock' = [rw_lock EXCEPT !.writer = <<t>>]
    /\ at_line' = [at_line EXCEPT ![t] = "five_hour"]
    /\ UNCHANGED <<guarded, built, cloned, observed, reads>>
    /\ UNCHANGED notSnapshot

\* *guard = info, one field at a time
StoreField(t) ==
    /\ t \in Responders
    /\ at_line[t] \in {"five_hour", "seven_day", "updated_at"}
    /\ guarded' = [guarded EXCEPT ![at_line[t]] = built[t][at_line[t]]]
    /\ at_line' = [at_line EXCEPT ![t] = next_field(at_line[t])]
    /\ UNCHANGED <<rw_lock, built, cloned, observed, reads>>
    /\ UNCHANGED notSnapshot

\* the write guard is dropped at the end of the if-let
ReleaseWrite(t) ==
    /\ t \in Responders
    /\ at_line[t] = "unlock"
    /\ rw_lock' = [rw_lock EXCEPT !.writer = <<>>]
    /\ at_line' = [at_line EXCEPT ![t] = "done"]
    /\ UNCHANGED <<guarded, built, cloned, observed, reads>>
    /\ UNCHANGED notSnapshot

\* rate_limit_info: self.rate_limit.read(), granted when no thread writes
AcquireRead(t) ==
    /\ at_line[t] = "idle"
    /\ reads < MaxReads
    /\ rw_lock.writer = <<>>
    /\ rw_lock' = [rw_lock EXCEPT !.readers = @ \cup {t}]
    /\ at_line' = [at_line EXCEPT ![t] = "five_hour"]
    /\ cloned' = [cloned EXCEPT ![t] = <<>>]
    /\ UNCHANGED <<guarded, built, observed, reads>>
    /\ UNCHANGED notSnapshot

\* guard.clone(), one field at a time
CloneField(t) ==
    /\ t \in Readers
    /\ at_line[t] \in {"five_hour", "seven_day", "updated_at"}
    /\ cloned' = [cloned EXCEPT ![t] = Append(@, guarded[at_line[t]])]
    /\ at_line' = [at_line EXCEPT ![t] = next_field(at_line[t])]
    /\ UNCHANGED <<rw_lock, guarded, built, observed, reads>>
    /\ UNCHANGED notSnapshot

\* the read guard is dropped and the clone returned to the caller
ReleaseRead(t) ==
    /\ t \in Readers
    /\ at_line[t] = "unlock"
    /\ rw_lock' = [rw_lock EXCEPT !.readers = @ \ {t}]
    /\ observed' = [observed EXCEPT ![t] =
                      <<[five_hour |-> cloned[t][1], seven_day |-> cloned[t][2],
                         updated_at |-> cloned[t][3]]>>]
    /\ reads' = reads + 1
    /\ at_line' = [at_line EXCEPT ![t] = "idle"]
    /\ UNCHANGED <<guarded, built, cloned>>
    /\ UNCHANGED notSnapshot

\* RwLock::new(RateLimitInfo::default()); every response is about to be
\* ingested and no reader has started
InitSnapshot ==
    /\ rw_lock = [writer |-> <<>>, readers |-> {}]
    /\ guarded = [five_hour |-> 0, seven_day |-> 0, updated_at |-> 0]
    /\ at_line = [t \in Responders \cup Readers |->
                    IF t \in Responders THEN "build" ELSE "idle"]
    /\ built = [t \in Responders |-> <<>>]
    /\ cloned = [t \in Readers |-> <<>>]
    /\ observed = [t \in Readers |-> <<>>]
    /\ reads = 0

QuietSnapshot ==
    /\ rw_lock = <<>>
    /\ guarded = <<>>
    /\ at_line = <<>>
    /\ built = <<>>
    /\ cloned = <<>>
    /\ observed = <<>>
    /\ reads = 0

NextSnapshot ==
    \/ \E t \in Responders : BuildInfo(t)
    \/ \E t \in Responders : AcquireWrite(t)
    \/ \E t \in Responders : StoreField(t)
    \/ \E t \in Responders : ReleaseWrite(t)
    \/ \E t \in Readers : AcquireRead(t)
    \/ \E t \in Readers : CloneField(t)
    \/ \E t \in Readers : ReleaseRead(t)

(***************************************************************************)
(* Request forwarding: what handle_anthropic_messages                      *)
(* (gateway/handlers/messages.rs) and send_request                         *)
(* (providers/claude_code/mod.rs) make of a client request.  Two requests  *)
(* are handled side by side, with the same gateway secret and the same     *)
(* provider token, so that their upstream requests can be compared.        *)
(*                                                                         *)
(* A JSON value is <<"string", text>>, <<"bool", b>>, <<"array">> or       *)
(* <<"object", members>> with members a function from names to values;    *)
(* the system member is a value of the system-prompt section above.        *)
(***************************************************************************)
PASSTHROUGH_HEADERS == <<"anthropic-beta">>

ANTHROPIC_API_VERSION == <<"2023-06-01">>

\* the token get_valid_token returns
AccessToken == <<"t", "k">>

\* format!("claude-code/{}", get_claude_code_version())
user_agent == <<"claude-code/", "2.0.75">>

JsonObject(members) == <<"object", members>>

is_object(v) == v[1] = "object"

\* Value::get on any value: <<>> unless v is an object with that member
get_member(v, k) ==
    IF is_object(v) /\ k \in DOMAIN v[2] THEN <<v[2][k]>> ELSE <<>>

\* Map::insert
insert(members, k, v) == [m \in DOMAIN members \cup {k} |->
                            IF m = k THEN v ELSE members[m]]

\* Map::remove
remove(members, k) == [m \in DOMAIN members \ {k} |-> members[m]]

OnlyModel == [m \in {"model"} |-> <<"string", <<"m">>>>]

\* Bodies a client may post
Bodies ==
    { JsonObject(OnlyModel),
      JsonObject(insert(OnlyModel, "stream", <<"bool", TRUE>>)),
      JsonObject(insert(OnlyModel, "stream", <<"bool", FALSE>>)),
      JsonObject(insert(OnlyModel, "stream", <<"string", <<"true">>>>)),
      JsonObject(insert(insert(OnlyModel, "stream", <<"bool", TRUE>>),
                        "_passthrough_headers",
                        JsonObject([h \in {"anthropic-beta"} |->
                                      <<"string", <<"b">>>>]))),
      JsonObject(insert(OnlyModel, "system", JsonArray(<<>>))),
      <<"array">> }

\* Headers a client may send: the credential in either form, valid or not;
\* anthropic-beta missing, readable or not visible ASCII; and one of two
\* headers the gateway has no use for
ClientHeaders ==
    [authorization : {<<>>, <<BearerPrefix \o <<"s", "3">>>>,
                      <<BearerPrefix \o <<"s", "4">>>>},
     x_api_key : {<<>>, <<<<"s", "3">>>>},
     anthropic_beta : {<<>>, <<<<"a">>>>, <<<<"FF">>>>},
     other : {<<>>, <<"user-agent", <<"curl">>>>,
              <<"anthropic-version", <<"1999">>>>}]

ClientRequests == [headers : ClientHeaders, body : Bodies]

\* handle_anthropic_messages, lines 57-70
attach_passthrough(headers, value) ==
    IF ~is_object(value) THEN value
    ELSE IF to_str(headers.anthropic_beta) = <<>> THEN value
    ELSE JsonObject(insert(value[2], "_passthrough_headers",
                           JsonObject([h \in {PASSTHROUGH_HEADERS[1]} |->
                                         <<"string",
                                           to_str(headers.anthropic_beta)[1]>>])))

\* inject_claude_code_prompt on a whole body
inject_into(value) ==
    IF get_member(value, "system") = <<>> THEN value
    ELSE JsonObject(insert(value[2], "system",
                           inject_claude_code_prompt(
                               get_member(value, "system"))[1]))

\* handle_anthropic_messages, lines 85-88
is_streaming(value) ==
    LET v == get_member(value, "stream")
    IN  IF v = <<>> THEN FALSE
        ELSE IF v[1][1] # "bool" THEN FALSE
        ELSE v[1][2]

\* ensure_stream_field that leaves _passthrough_headers in the body
ensure_stream_field_keeps(data, stream) ==
    IF is_object(data)
    THEN JsonObject(insert(data[2], "stream", <<"bool", stream>>))
    ELSE data

ensure_stream_field(data, stream) ==
    IF is_object(data)
    THEN JsonObject(remove(insert(data[2], "stream", <<"bool", stream>>),
                           "_passthrough_headers"))
    ELSE data

\* build_beta_value's reading of data: the text at
\* _passthrough_headers.anthropic-beta, if it is a string
passed_beta(data) ==
    LET h == get_member(data, "_passthrough_headers")
        v == IF h = <<>> THEN <<>> ELSE get_member(h[1], "anthropic-beta")
    IN  IF v = <<>> THEN <<>>
        ELSE IF v[1][1] # "string" THEN <<>>
        ELSE <<v[1][2]>>

\* build_headers
build_headers(access_token, data) ==
    [h \in {"authorization", "content-type", "accept", "anthropic-version",
            "anthropic-beta"} |->
        CASE h = "authorization" -> BearerPrefix \o access_token
          [] h = "content-type" -> <<"application/json">>
          [] h = "accept" -> <<"application/json">>
          [] h = "anthropic-version" -> ANTHROPIC_API_VERSION
          [] OTHER -> build_beta_value(passed_beta(data))]

\* send_request that takes the credential headers of the client along
post_with_client_auth(req, data, stream) ==
    [headers |-> [h \in DOMAIN build_headers(AccessToken, data)
                          \cup {"user-agent", "x-api-key"} |->
                    IF h = "user-agent" THEN user_agent
                    ELSE IF h = "x-api-key"
                    THEN (IF req.headers.x_api_key = <<>> THEN <<>>
                          ELSE req.headers.x_api_key[1])
                    ELSE build_headers(AccessToken, data)[h]],
     body |-> ensure_stream_field(data, stream)]

\* send_request, lines 174-187: the POST the shared client sends, with the
\* default User-Agent the client was built with (lines 64-73)
post(req, data, stream) ==
    [headers |-> [h \in DOMAIN build_headers(AccessToken, data)
                          \cup {"user-agent"} |->
                    IF h = "user-agent" THEN user_agent
                    ELSE build_headers(AccessToken, data)[h]],
     body |-> ensure_stream_field(data, stream)]

\* a POST to /anthropic/v1/messages arrives: the first, then the second
ReceiveRequest(r) ==
    /\ forward_step = "idle"
    /\ arrived' = Append(arrived, r)
    /\ forward_step' = IF Len(arrived) = 1 THEN "arrived" ELSE "idle"
    /\ UNCHANGED <<handed, mode, posted>>
    /\ UNCHANGED notForward

\* auth_middleware, then handle_anthropic_messages up to the dispatch
TransformPair ==
    /\ forward_step = "arrived"
    /\ handed' = [i \in 1..2 |->
                    IF is_valid([authorization |-> arrived[i].headers.authorization,
                                 x_api_key |-> arrived[i].headers.x_api_key])
                    THEN <<inject_into(attach_passthrough(arrived[i].headers,
                                                          arrived[i].body))>>
                    ELSE <<>>]
    /\ mode' = [i \in 1..2 |->
                  IF handed'[i] = <<>> THEN FALSE ELSE is_streaming(handed'[i][1])]
    /\ forward_step' = "handed"
    /\ UNCHANGED <<arrived, posted>>
    /\ UNCHANGED notForward

\* send_streaming or send_message: send_request with the dispatch mode
PostPair ==
    /\ forward_step = "handed"
    /\ posted' = [i \in 1..2 |->
                    IF handed[i] = <<>> THEN <<>>
                    ELSE <<post(arrived[i], handed[i][1], mode[i])>>]
    /\ forward_step' = "posted"
    /\ UNCHANGED <<arrived, handed, mode>>
    /\ UNCHANGED notForward

InitForward ==
    /\ arrived = <<>>
    /\ handed = <<<<>>, <<>>>>
    /\ mode = <<FALSE, FALSE>>
    /\ posted = <<<<>>, <<>>>>
    /\ forward_step = "idle"

QuietForward == InitForward

NextForward ==
    \/ \E r \in ClientRequests : ReceiveRequest(r)
    \/ TransformPair
    \/ PostPair

(***************************************************************************)
(* Serving with several providers: get_valid_token                         *)
(* (providers/claude_code/mod.rs) of two ClaudeCodeProviders over the      *)
(* files of one providers directory, with update_oauth and save            *)
(* (providers/config.rs) at the grain of the file system calls: fs::write  *)
(* creates (truncates) the file and then writes the text.                  *)
(***************************************************************************)
Requests == {1, 2}

\* the providers the registry holds, by name
Served == { <<"w">>, <<"x">> }

StaleCredential ==
    [access_token |-> "t1", refresh_token |-> "r1", expires_at |-> 5,
     scopes |-> <<"s1">>]

FreshCredential ==
    [access_token |-> "t2", refresh_token |-> "r2", expires_at |-> 400000,
     scopes |-> <<"s1">>]

\* what the token endpoint answers to request r: tokens of its own
Refreshed(r) ==
    [access_token |-> IF r = 1 THEN "t11" ELSE "t12",
     refresh_token |-> IF r = 1 THEN "r11" ELSE "r12",
     expires_at |-> 400000, scopes |-> <<"s1">>]

\* save, lines 83-96: the text of a record
content_of(config) ==
    to_string_pretty(
        TomlFile(config.provider_type,
                 IF config.auth[1] = "OAuth" THEN <<config.auth[2]>> ELSE <<>>,
                 IF config.auth[1] = "Api" THEN <<config.auth[2]>> ELSE <<>>))

\* the files a login may have left for a provider
LoginTexts ==
    { content_of(ProviderConfig(<<"w">>, "ClaudeCode", <<"OAuth", StaleCredential>>)),
      content_of(ProviderConfig(<<"w">>, "ClaudeCode", <<"OAuth", FreshCredential>>)),
      TextApi }

NotServing ==
    [provider |-> <<>>, at |-> "idle", local |-> <<>>, writing |-> <<>>,
     outcome |-> "none"]

Done(r, how) == [serving EXCEPT ![r].at = "done", ![r].outcome = how]

\* the handler routes request r to provider p and calls send_request
Route(r, p) ==
    /\ serving[r].at = "idle"
    /\ serving' = [serving EXCEPT ![r].provider = p, ![r].at = "check"]
    /\ UNCHANGED <<srv_files, srv_cache>>
    /\ UNCHANGED notServe

\* get_valid_token, lines 131-139
ServeCheckCache(r) ==
    /\ serving[r].at = "check"
    /\ serving' = IF srv_cache[serving[r].provider] # <<>>
                     /\ ~should_refresh(srv_cache[serving[r].provider][1])
                  THEN Done(r, "ok")
                  ELSE [serving EXCEPT ![r].at = "load"]
    /\ UNCHANGED <<srv_files, srv_cache>>
    /\ UNCHANGED notServe

\* get_valid_token, lines 141-149: load_by_name, the match on cfg.auth and
\* the test of should_refresh
ServeLoad(r) ==
    /\ serving[r].at = "load"
    /\ \E cfg \in {load_by_name(srv_files, ProvidersDir, serving[r].provider)} :
         serving' =
            IF cfg = <<>> THEN Done(r, "load_err")
            ELSE IF cfg[1].auth[1] # "OAuth" THEN Done(r, "not_oauth")
            ELSE [serving EXCEPT
                    ![r].local = <<cfg[1].auth[2]>>,
                    ![r].at = IF should_refresh(cfg[1].auth[2])
                              THEN "refresh" ELSE "store"]
    /\ UNCHANGED <<srv_files, srv_cache>>
    /\ UNCHANGED notServe

\* oauth::refresh_token succeeds
ServeRefresh(r) ==
    /\ serving[r].at = "refresh"
    /\ serving' = [serving EXCEPT ![r].local = <<Refreshed(r)>>,
                                  ![r].at = "update"]
    /\ UNCHANGED <<srv_files, srv_cache>>
    /\ UNCHANGED notServe

\* oauth::refresh_token fails
ServeRefreshFail(r) ==
    /\ serving[r].at = "refresh"
    /\ serving' = Done(r, "refresh_err")
    /\ UNCHANGED <<srv_files, srv_cache>>
    /\ UNCHANGED notServe

\* update_oauth, lines 161-162, and save up to the text: load_by_name, the
\* new auth, to_string_pretty
ServeUpdateOauth(r) ==
    /\ serving[r].at = "update"
    /\ \E cfg \in {load_by_name(srv_files, ProvidersDir, serving[r].provider)} :
         serving' =
            IF cfg = <<>> THEN Done(r, "persist_err")
            ELSE [serving EXCEPT
                    ![r].writing =
                        <<content_of(ProviderConfig(cfg[1].name,
                                                    cfg[1].provider_type,
                                                    <<"OAuth", serving[r].local[1]>>))>>,
                    ![r].at = "create"]
    /\ UNCHANGED <<srv_files, srv_cache>>
    /\ UNCHANGED notServe

\* fs::write, first half: File::create opens the file and truncates it
ServeCreate(r) ==
    /\ serving[r].at = "create"
    /\ srv_files' = [srv_files EXCEPT
                       ![file_path(ProvidersDir, serving[r].provider)] = <<>>]
    /\ serving' = [serving EXCEPT ![r].at = "write"]
    /\ UNCHANGED srv_cache
    /\ UNCHANGED notServe

\* fs::write cannot open the file: `?` returns the error
ServeCreateFail(r) ==
    /\ serving[r].at = "create"
    /\ serving' = Done(r, "persist_err")
    /\ UNCHANGED <<srv_files, srv_cache>>
    /\ UNCHANGED notServe

\* fs::write, second half: write_all puts the text into the file
ServeWrite(r) ==
    /\ serving[r].at = "write"
    /\ srv_files' = [srv_files EXCEPT
                       ![file_path(ProvidersDir, serving[r].provider)] =
                           serving[r].writing[1]]
    /\ serving' = [serving EXCEPT ![r].at = "store"]
    /\ UNCHANGED srv_cache
    /\ UNCHANGED notServe

\* get_valid_token with one cache shared by all providers
ServeStoreCache_shared(r) ==
    /\ serving[r].at = "store"
    /\ srv_cache' = [p \in Served |-> serving[r].local]
    /\ serving' = Done(r, "ok")
    /\ UNCHANGED srv_files
    /\ UNCHANGED notServe

\* get_valid_token, lines 155-162: the cache is set under the mutex
ServeStoreCache(r) ==
    /\ serving[r].at = "store"
    /\ srv_cache' = [srv_cache EXCEPT ![serving[r].provider] = serving[r].local]
    /\ serving' = Done(r, "ok")
    /\ UNCHANGED srv_files
    /\ UNCHANGED notServe

\* every provider has a file from a login, no cache and no request
InitServe ==
    /\ srv_files \in [{file_path(ProvidersDir, p) : p \in Served} -> LoginTexts]
    /\ srv_cache = [p \in Served |-> <<>>]
    /\ serving = [r \in Requests |-> NotServing]

QuietServe ==
    /\ srv_files = <<>>
    /\ srv_cache = <<>>
    /\ serving = <<>>

NextServe ==
    \/ \E r \in Requests, p \in Served : Route(r, p)
    \/ \E r \in Requests : ServeCheckCache(r)
    \/ \E r \in Requests : ServeLoad(r)
    \/ \E r \in Requests : ServeRefresh(r)
    \/ \E r \in Requests : ServeRefreshFail(r)
    \/ \E r \in Requests : ServeUpdateOauth(r)
    \/ \E r \in Requests : ServeCreate(r)
    \/ \E r \in Requests : ServeCreateFail(r)
    \/ \E r \in Requests : ServeWrite(r)
    \/ \E r \in Requests : ServeStoreCache(r)

(***************************************************************************)
(* OAuth login (providers/claude_code/oauth.rs): perform_oauth_login with  *)
(* the PKCE session cache OAuthLoginCache.  A verifier or a state is       *)
(* <<"v", n>> or <<"s", n>> for the n-th session generated; text read from *)
(* standard input is a sequence of characters.                             *)
(***************************************************************************)
MaxLogins == 2

MaxPrompts == 2

MaxLoginTicks == 3

LoginTickMs == 1800 * 1000

\* unix_timestamp_ms() of the login command
login_ms == login_now * LoginTickMs

CACHE_TTL_MS == 3600 * 1000

\* PkceChallenge::generate: the challenge is the SHA-256 of the verifier
challenge_of(verifier) == <<"S256", verifier>>

build_authorize_url(challenge, session_state) ==
    <<"authorize", challenge, session_state>>

\* the OAuthLoginCache of the n-th generated session, created at `created`
OAuthLoginCache(n, created) ==
    [verifier |-> <<"v", n>>, challenge |-> challenge_of(<<"v", n>>),
     state |-> <<"s", n>>,
     authorize_url |-> build_authorize_url(challenge_of(<<"v", n>>), <<"s", n>>),
     created_at |-> created]

\* OAuthLoginCache::load that drops a cache on its last millisecond
cache_load_ge(file, now) ==
    IF file[1] # "cache" THEN <<>>
    ELSE IF now >= file[2].created_at + CACHE_TTL_MS THEN <<>>
    ELSE <<file[2]>>

\* OAuthLoginCache::load: None for a file that is missing, unreadable or
\* expired
cache_load(file, now) ==
    IF file[1] # "cache" THEN <<>>
    ELSE IF now > file[2].created_at + CACHE_TTL_MS THEN <<>>
    ELSE <<file[2]>>

\* the file after OAuthLoginCache::load: an expired cache is cleared
after_load(file, now) ==
    IF file[1] = "cache" /\ cache_load(file, now) = <<>> THEN <<"absent">>
    ELSE file

is_whitespace(c) == c \in {" ", "\n"}

RECURSIVE trim_text(_)
\* str::trim for the white space standard input brings
trim_text(text) ==
    IF text = <<>> THEN text
    ELSE IF is_whitespace(Head(text)) THEN trim_text(Tail(text))
    ELSE IF is_whitespace(text[Len(text)])
    THEN trim_text(SubSeq(text, 1, Len(text) - 1))
    ELSE text

\* split('#').next(): the text before the first '#'
RECURSIVE before_hash(_)
before_hash(text) ==
    IF text = <<>> \/ Head(text) = "#" THEN <<>>
    ELSE <<Head(text)>> \o before_hash(Tail(text))

\* read_authorization_code on the line read: <<>> (Err) or <<code>>
read_authorization_code(line) ==
    LET code == trim_text(before_hash(trim_text(line)))
    IN  IF code = <<>> THEN <<>> ELSE <<code>>

\* what a user may paste: a code, a code with its state, a state alone, an
\* empty line, the end of input, a padded code, a code with two '#'
Lines ==
    { <<"c", "\n">>, <<"c", "#", "s", "\n">>, <<"#", "s", "\n">>, <<"\n">>,
      <<>>, <<" ", "c", " ", "#", "s", "\n">>, <<"c", "d", "#", "#", "e", "\n">> }

NoLogin ==
    [at |-> "idle", verifier |-> <<>>, state |-> <<>>, authorize_url |-> <<>>]

\* perform_oauth_login, lines 225-254: the session is loaded or generated,
\* cached if it is new (the write may fail), and its URL printed
StartLogin(saved_ok) ==
    /\ login.at \in {"idle", "done"}
    /\ logins < MaxLogins
    /\ logins' = logins + 1
    /\ prompts' = 0
    /\ exchange' = <<>>
    /\ pasted' = <<>>
    /\ \E cache \in {cache_load(cache_file, login_ms)} :
         IF cache # <<>>
         THEN /\ login' = [at |-> "prompt", verifier |-> cache[1].verifier,
                           state |-> cache[1].state,
                           authorize_url |-> cache[1].authorize_url]
              /\ UNCHANGED <<cache_file, generated>>
         ELSE /\ generated' = generated + 1
              /\ login' = [at |-> "prompt", verifier |-> <<"v", generated + 1>>,
                           state |-> <<"s", generated + 1>>,
                           authorize_url |->
                               build_authorize_url(
                                   challenge_of(<<"v", generated + 1>>),
                                   <<"s", generated + 1>>)]
              /\ cache_file' = IF saved_ok
                               THEN <<"cache", OAuthLoginCache(generated + 1,
                                                               login_ms)>>
                               ELSE after_load(cache_file, login_ms)
    /\ UNCHANGED login_now
    /\ UNCHANGED notLogin

\* the loop, lines 256-266: a line is read; an empty code is reported and
\* asked for again, any other code goes to exchange_code
ReadCode(line) ==
    /\ login.at = "prompt"
    /\ prompts < MaxPrompts
    /\ prompts' = prompts + 1
    /\ pasted' = line
    /\ IF read_authorization_code(line) = <<>>
       THEN UNCHANGED <<login, exchange>>
       ELSE /\ exchange' = <<[code |-> read_authorization_code(line)[1],
                              verifier |-> login.verifier,
                              state |-> login.state]>>
            /\ login' = [login EXCEPT !.at = "exchange"]
    /\ UNCHANGED <<login_now, cache_file, generated, logins>>
    /\ UNCHANGED notLogin

\* exchange_code succeeds: the cache is cleared and the login returns
ExchangeOk ==
    /\ login.at = "exchange"
    /\ cache_file' = <<"absent">>
    /\ login' = [login EXCEPT !.at = "done"]
    /\ UNCHANGED <<login_now, generated, prompts, exchange, pasted, logins>>
    /\ UNCHANGED notLogin

\* a failed exchange after which the login starts over with a new session
ExchangeFail_new_session ==
    /\ login.at = "exchange"
    /\ generated' = generated + 1
    /\ login' = [at |-> "prompt", verifier |-> <<"v", generated + 1>>,
                 state |-> <<"s", generated + 1>>,
                 authorize_url |-> login.authorize_url]
    /\ UNCHANGED <<login_now, cache_file, prompts, exchange, pasted, logins>>
    /\ UNCHANGED notLogin

\* exchange_code fails: the error is printed and the loop goes on
ExchangeFail ==
    /\ login.at = "exchange"
    /\ login' = [login EXCEPT !.at = "prompt"]
    /\ UNCHANGED <<login_now, cache_file, generated, prompts, exchange, pasted,
                   logins>>
    /\ UNCHANGED notLogin

LoginTick ==
    /\ login_now < MaxLoginTicks
    /\ login_now' = login_now + 1
    /\ UNCHANGED <<cache_file, generated, login, prompts, exchange, pasted,
                   logins>>
    /\ UNCHANGED notLogin

\* the cache file is missing, unreadable, or left by an earlier login that
\* was not completed
InitLogin ==
    /\ login_now = 0
    /\ cache_file \in {<<"absent">>, <<"garbage">>,
                       <<"cache", OAuthLoginCache(0, 0)>>}
    /\ generated = 0
    /\ login = NoLogin
    /\ prompts = 0
    /\ exchange = <<>>
    /\ pasted = <<>>
    /\ logins = 0

QuietLogin ==
    /\ login_now = 0
    /\ cache_file = <<"absent">>
    /\ generated = 0
    /\ login = NoLogin
    /\ prompts = 0
    /\ exchange = <<>>
    /\ pasted = <<>>
    /\ logins = 0

NextLogin ==
    \/ \E saved_ok \in BOOLEAN : StartLogin(saved_ok)
    \/ \E line \in Lines : ReadCode(line)
    \/ ExchangeOk
    \/ ExchangeFail
    \/ LoginTick

(***************************************************************************)
(* Specifications                                                          *)
(***************************************************************************)
TokenInit == InitToken /\ InitSelect /\ QuietAuth /\ QuietRelay /\ QuietSpoof
    /\ QuietBeta /\ QuietPrompt /\ QuietUsage /\ QuietHandler
    /\ QuietConfig /\ QuietDir /\ QuietIngest /\ QuietSnapshot
    /\ QuietForward /\ QuietServe /\ QuietLogin

SelectInit == QuietToken /\ InitSelect /\ QuietAuth /\ QuietRelay /\ QuietSpoof
    /\ QuietBeta /\ QuietPrompt /\ QuietUsage /\ QuietHandler
    /\ QuietConfig /\ QuietDir /\ QuietIngest /\ QuietSnapshot
    /\ QuietForward /\ QuietServe /\ QuietLogin

AuthInit == QuietToken /\ InitSelect /\ InitAuth /\ QuietRelay /\ QuietSpoof
    /\ QuietBeta /\ QuietPrompt /\ QuietUsage /\ QuietHandler
    /\ QuietConfig /\ QuietDir /\ QuietIngest /\ QuietSnapshot
    /\ QuietForward /\ QuietServe /\ QuietLogin

SpecToken == TokenInit /\ [][NextToken]_vars

SpecSelect == SelectInit /\ [][NextSelect]_vars

SpecAuth == AuthInit /\ [][NextAuth]_vars

RelayInit == QuietToken /\ InitSelect /\ QuietAuth /\ InitRelay /\ QuietSpoof
    /\ QuietBeta /\ QuietPrompt /\ QuietUsage /\ QuietHandler
    /\ QuietConfig /\ QuietDir /\ QuietIngest /\ QuietSnapshot
    /\ QuietForward /\ QuietServe /\ QuietLogin

SpoofInit == QuietToken /\ InitSelect /\ QuietAuth /\ QuietRelay /\ InitSpoof
    /\ QuietBeta /\ QuietPrompt /\ QuietUsage /\ QuietHandler
    /\ QuietConfig /\ QuietDir /\ QuietIngest /\ QuietSnapshot
    /\ QuietForward /\ QuietServe /\ QuietLogin

SpecRelay == RelayInit /\ [][NextRelay]_vars

SpecSpoof == SpoofInit /\ [][NextSpoof]_vars

BetaInit == QuietToken /\ InitSelect /\ QuietAuth /\ QuietRelay /\ QuietSpoof
    /\ InitBeta /\ QuietPrompt /\ QuietUsage /\ QuietHandler /\ QuietConfig
    /\ QuietDir /\ QuietIngest /\ QuietSnapshot /\ QuietForward
    /\ QuietServe /\ QuietLogin

SpecBeta == BetaInit /\ [][NextBeta]_vars

PromptInit == QuietToken /\ InitSelect /\ QuietAuth /\ QuietRelay /\ QuietSpoof
    /\ QuietBeta /\ InitPrompt /\ QuietUsage /\ QuietHandler /\ QuietConfig
    /\ QuietDir /\ QuietIngest /\ QuietSnapshot /\ QuietForward
    /\ QuietServe /\ QuietLogin

SpecPrompt == PromptInit /\ [][NextPrompt]_vars

UsageInit == QuietToken /\ InitSelect /\ QuietAuth /\ QuietRelay /\ QuietSpoof
    /\ QuietBeta /\ QuietPrompt /\ InitUsage /\ QuietHandler /\ QuietConfig
    /\ QuietDir /\ QuietIngest /\ QuietSnapshot /\ QuietForward
    /\ QuietServe /\ QuietLogin

SpecUsage == UsageInit /\ [][NextUsage]_vars

\* The upstream body is finite and the API client's request timeout ends a
\* stalled one with an error, and the runtime schedules the relay task: some
\* step of the relay is always eventually taken.
\* Streams of events without usage and without multi-byte characters.
PlainRelay ==
    /\ InitRelay
    /\ trailer \in {<<>>, <<"a">>}
    /\ \A k \in 1..Len(events) : events[k] \in {<<"a">>, <<"b", "LF", "a">>}

RelayFairInit == QuietToken /\ InitSelect /\ QuietAuth /\ PlainRelay /\ QuietSpoof
    /\ QuietBeta /\ QuietPrompt /\ QuietUsage /\ QuietHandler
    /\ QuietConfig /\ QuietDir /\ QuietIngest /\ QuietSnapshot
    /\ QuietForward /\ QuietServe /\ QuietLogin

SpecRelayFair == RelayFairInit /\ [][NextRelay]_vars /\ WF_vars(NextRelay)

HandlerInit == QuietToken /\ InitHandlerSelect /\ QuietAuth /\ QuietRelay
    /\ QuietSpoof /\ QuietBeta /\ QuietPrompt /\ QuietUsage /\ InitHandler
    /\ QuietConfig /\ QuietDir /\ QuietIngest /\ QuietSnapshot
    /\ QuietForward /\ QuietServe /\ QuietLogin

SpecHandler == HandlerInit /\ [][NextHandler]_vars

ConfigInit == QuietToken /\ InitSelect /\ QuietAuth /\ QuietRelay /\ QuietSpoof
    /\ QuietBeta /\ QuietPrompt /\ QuietUsage /\ QuietHandler /\ InitConfig
    /\ QuietDir /\ QuietIngest /\ QuietSnapshot /\ QuietForward
    /\ QuietServe /\ QuietLogin

SpecConfig == ConfigInit /\ [][NextConfig]_vars

DirInit == QuietToken /\ InitSelect /\ QuietAuth /\ QuietRelay /\ QuietSpoof
    /\ QuietBeta /\ QuietPrompt /\ QuietUsage /\ QuietHandler /\ QuietConfig
    /\ InitDir /\ QuietIngest /\ QuietSnapshot /\ QuietForward
    /\ QuietServe /\ QuietLogin

SpecDir == DirInit /\ [][NextDir]_vars

IngestInit == QuietToken /\ InitIngest /\ QuietAuth /\ QuietRelay /\ QuietSpoof
    /\ QuietBeta /\ QuietPrompt /\ QuietUsage /\ QuietHandler
    /\ QuietConfig /\ QuietDir /\ QuietSnapshot /\ QuietForward
    /\ QuietServe /\ QuietLogin

SpecIngest == IngestInit /\ [][NextIngest]_vars

SnapshotInit == QuietToken /\ InitSelect /\ QuietAuth /\ QuietRelay /\ QuietSpoof
    /\ QuietBeta /\ QuietPrompt /\ QuietUsage /\ QuietHandler
    /\ QuietConfig /\ QuietDir /\ QuietIngest /\ InitSnapshot
    /\ QuietForward /\ QuietServe /\ QuietLogin

SpecSnapshot == SnapshotInit /\ [][NextSnapshot]_vars

ForwardInit == QuietToken /\ InitSelect /\ QuietAuth /\ QuietRelay /\ QuietSpoof
    /\ QuietBeta /\ QuietPrompt /\ QuietUsage /\ QuietHandler
    /\ QuietConfig /\ QuietDir /\ QuietIngest /\ QuietSnapshot /\ InitForward
    /\ QuietServe /\ QuietLogin

SpecForward == ForwardInit /\ [][NextForward]_vars

ServeInit == QuietToken /\ InitSelect /\ QuietAuth /\ QuietRelay /\ QuietSpoof
    /\ QuietBeta /\ QuietPrompt /\ QuietUsage /\ QuietHandler
    /\ QuietConfig /\ QuietDir /\ QuietIngest /\ QuietSnapshot /\ QuietForward
    /\ InitServe /\ QuietLogin

SpecServe == ServeInit /\ [][NextServe]_vars

LoginInit == QuietToken /\ InitSelect /\ QuietAuth /\ QuietRelay /\ QuietSpoof
    /\ QuietBeta /\ QuietPrompt /\ QuietUsage /\ QuietHandler
    /\ QuietConfig /\ QuietDir /\ QuietIngest /\ QuietSnapshot /\ QuietForward
    /\ QuietServe /\ InitLogin

SpecLogin == LoginInit /\ [][NextLogin]_vars

(***************************************************************************)
(* Claims about the OAuth credential lifecycle                             *)
(***************************************************************************)

\* C1 (single-flight refresh): when all callers have returned a token within
\* the same clock instant, and every credential a caller loaded or obtained
\* is still fresh, at most one POST went to the token endpoint and all
\* callers returned the same access token.
C1_SingleFlight ==
    ( /\ ticks = 0
      /\ \A t \in Callers :
           /\ pc[t] = "done"
           /\ outcome[t] = "ok"
           /\ (oauth[t] # <<>> => ~should_refresh(oauth[t][1])) )
    => ( /\ tokCalls <= 1
         /\ \A t1, t2 \in Callers : token[t1] = token[t2] )

\* C2 (freshness): in the step in which get_valid_token returns Ok(token),
\* the token is that of the cached credential and that credential has
\* expires_at > now_ms + 5*60*1000.  Stated for the returns made while the
\* clock still reads its initial value, so that no time has passed between
\* the code's freshness check and the return.
C2_Freshness ==
    [][ \A t \in Callers :
          (ticks' = 0 /\ pc[t] # "post" /\ pc'[t] = "post")
          => ( /\ cached_oauth' # <<>>
               /\ cached_oauth'[1].access_token = token'[t]
               /\ cached_oauth'[1].expires_at
                    > (ticks' * TickMs) + TOKEN_REFRESH_THRESHOLD_MS ) ]_vars

\* C7 (refresh failure): the step in which the refresh call fails ends the
\* request with an error and leaves the cached credential (and the file)
\* as they were, and a request that ended so has sent no POST to the
\* messages URL.
C7_RefreshFailure ==
    [][ /\ \A t \in Callers :
             (pc[t] = "refreshing" /\ outcome'[t] = "refresh_err")
             => (pc'[t] = "done" /\ cached_oauth' = cached_oauth /\ disk' = disk)
        /\ \A t \in Callers :
             outcome'[t] = "refresh_err" => (posts'[t] = 0 /\ token'[t] = 0) ]_vars

\* a refresh call failed at transport level while the cache held a credential
C7_Witness ==
    \E t \in Callers :
        /\ pc[t] = "done"
        /\ outcome[t] = "refresh_err"
        /\ response[t] = <<>>
        /\ cached_oauth # <<>>

\* C8 (refresh persistence): a request that ran alone and refreshed made
\* exactly one call to the token endpoint, and afterwards the file and the
\* cache both hold the access_token and refresh_token of the answer and
\* expires_at = (time of the answer) + expires_in * 1000.
RefreshedAlone(t) ==
    /\ pc[t] \in {"post", "done"}
    /\ outcome[t] = "ok"
    /\ response[t] # <<>>
    /\ \A u \in Callers \ {t} : pc[u] = "idle"

C8_RefreshPersistence ==
    \A t \in Callers :
        RefreshedAlone(t) =>
            LET r == response[t][1]
                expected == OAuthConfig(r.access_token, r.refresh_token,
                                        responseAt[t] + r.expires_in * 1000)
            IN  /\ tokCalls = 1
                /\ disk = expected
                /\ cached_oauth = <<expected>>

\* a lone request refreshed, the endpoint having kept the refresh token
C8_Witness ==
    \E t \in Callers :
        /\ RefreshedAlone(t)
        /\ pc[t] = "done"
        /\ response[t][1].refresh_token = 1
        /\ response[t][1].expires_in = 60

(***************************************************************************)
(* Claims about provider selection                                         *)
(***************************************************************************)

\* a window is unavailable iff utilization > 0.995 and now_seconds < reset
WindowUnavailable(window) ==
    window.utilization > 995 /\ now_s < window.reset

\* provider number i of the registry may be returned under the filter
Eligible(i, filter) ==
    /\ providers[i] \in filter
    /\ ~WindowUnavailable(rate_limit[providers[i]].five_hour)
    /\ ~WindowUnavailable(rate_limit[providers[i]].seven_day)

\* C3 (selection): every get_next_provider call returns the first provider in
\* registry order that the filter accepts and none of whose two windows is
\* unavailable, and none when there is no such provider.
C3_Selection ==
    [][ \A f \in SUBSET ProviderSet :
          GetNextProvider(f) =>
            IF \E i \in 1..Len(providers) : Eligible(i, f)
            THEN \E i \in 1..Len(providers) :
                    /\ Eligible(i, f)
                    /\ \A j \in 1..(i - 1) : ~Eligible(j, f)
                    /\ selection'.result = <<providers[i]>>
            ELSE selection'.result = <<>> ]_vars

\* a call passed over A, whose 5-hour window is over the threshold with the
\* reset ahead, and returned B, whose 7-day utilization is exactly 0.995
C3_Witness ==
    /\ selection.filter = {"A", "B"}
    /\ selection.result = <<"B">>
    /\ selection.at = now_s
    /\ rate_limit["A"].five_hour.utilization = 996
    /\ now_s < rate_limit["A"].five_hour.reset
    /\ rate_limit["B"].seven_day.utilization = 995
    /\ now_s < rate_limit["B"].seven_day.reset

ProviderExcluded(p) ==
    \/ WindowUnavailable(rate_limit[p].five_hour)
    \/ WindowUnavailable(rate_limit[p].seven_day)

\* C9 (exclusion and recovery), for filters accepting both A and B: a call
\* returns A whenever A is not excluded, and B (never A) while A is excluded
\* and B is not; and when the clock alone moves A from excluded to not
\* excluded, the stored snapshot being untouched, selection returns A again.
C9_ExclusionRecovery ==
    [][ \A f \in {g \in SUBSET ProviderSet : {"A", "B"} \subseteq g} :
          /\ GetNextProvider(f) =>
               /\ ~ProviderExcluded("A") => selection'.result = <<"A">>
               /\ (ProviderExcluded("A") /\ ~ProviderExcluded("B"))
                     => selection'.result = <<"B">>
               /\ ProviderExcluded("A") => selection'.result # <<"A">>
          /\ ( /\ TickS
                /\ ProviderExcluded("A")
                /\ now_s' >= rate_limit["A"].five_hour.reset
                /\ now_s' >= rate_limit["A"].seven_day.reset )
               => /\ rate_limit' = rate_limit
                  /\ (get_next_provider(f))' = <<"A">> ]_vars

\* A was returned at or after the reset of a 5-hour window that a response
\* had filled to 1.0 before the reset, and that is still stored
C9_Witness ==
    /\ selection.filter = {"A", "B"}
    /\ selection.result = <<"A">>
    /\ rate_limit["A"].five_hour.utilization = 1000
    /\ rate_limit["A"].updated_at < rate_limit["A"].five_hour.reset
    /\ rate_limit["A"].five_hour.reset <= selection.at

(***************************************************************************)
(* Authentication gate                                                     *)
(***************************************************************************)

\* a header that is present and whose value is text (visible ASCII)
IsText(h) == h # <<>> /\ \A i \in 1..Len(h[1]) : h[1][i] # "FF"

\* a header whose text starts with "Bearer "
IsBearer(h) ==
    /\ IsText(h)
    /\ Len(h[1]) >= Len(BearerPrefix)
    /\ \A i \in 1..Len(BearerPrefix) : h[1][i] = BearerPrefix[i]

\* the request presents the secret: as the whole token after "Bearer ", or,
\* with no bearer token, as the whole x-api-key value
PresentsSecret(req) ==
    IF IsBearer(req.authorization)
    THEN req.authorization[1] = BearerPrefix \o secret
    ELSE IsText(req.x_api_key) /\ req.x_api_key[1] = secret

Unauthorized ==
    [status |-> 401, type |-> "authentication_error",
     message |-> "Invalid or missing secret"]

\* C4 (authentication gate): a request is in the messages handler, or has
\* selected a provider, fetched a token or sent an upstream request, only if
\* the credential it presents is byte-equal to the secret; and every other
\* request is answered 401 with the authentication_error body and has caused
\* none of the three.
C4_AuthGate ==
    /\ (stage = "handler" \/ effects # NoEffects) => PresentsSecret(request)
    /\ (stage = "responded" /\ ~PresentsSecret(request))
         => (reply = Unauthorized /\ effects = NoEffects)

\* a proper prefix of the secret as bearer token, with the secret itself in
\* x-api-key, has been answered 401
C4_Witness ==
    /\ stage = "responded"
    /\ secret = <<"s", "3">>
    /\ request.authorization = <<BearerPrefix \o <<"s">>>>
    /\ request.x_api_key = <<secret>>
    /\ reply = Unauthorized

(***************************************************************************)
(* Streaming relay                                                         *)
(***************************************************************************)

\* the relay ran to the end of upstream with the client connected
RelayedAll == relay = "done" /\ ~failed /\ client = "connected"

\* C5 (event framing): when upstream was a sequence of events and nothing
\* else, whatever its split into chunks, the relay has sent exactly those
\* events, in order, one send per event, each ending in the separator.
C5_EventFraming ==
    (RelayedAll /\ trailer = <<>>)
      => sent = [i \in 1..Len(events) |-> events[i] \o Separator]

\* C6 (byte preservation): when upstream ended without error and the client
\* stayed, the sends concatenated are the upstream bytes, whatever the
\* chunking, the trailing text without separator included.
C6_BytePreservation ==
    RelayedAll => Concat(sent) = Framed(events) \o trailer

(***************************************************************************)
(* Tool-name aliasing                                                      *)
(***************************************************************************)

\* C10 (alias bijection): to_original(to_spoofed(x)) = x for every tool name
\* x, names that already start with mcp_ included.
C10_RoundTrip ==
    phase = "restored" => restored = name

(***************************************************************************)
(* anthropic-beta merge                                                    *)
(***************************************************************************)

\* the pieces of a text between its commas, as pairs of first and last index
\* (an empty piece has last = first - 1)
Pieces(text) ==
    {pc2 \in (1..(Len(text) + 1)) \X (0..Len(text)) :
        /\ pc2[2] >= pc2[1] - 1
        /\ pc2[1] = 1 \/ text[pc2[1] - 1] = ","
        /\ pc2[2] = Len(text) \/ text[pc2[2] + 1] = ","
        /\ \A k \in pc2[1]..pc2[2] : text[k] # ","}

\* a piece without the blanks around it
Stripped(text, piece) ==
    LET inner == {k \in piece[1]..piece[2] : text[k] # " "} IN
    IF inner = {} THEN <<>>
    ELSE LET lo == CHOOSE k \in inner : \A m \in inner : k <= m
             hi == CHOOSE k \in inner : \A m \in inner : k >= m
         IN  SubSeq(text, lo, hi)

\* the non-empty trimmed elements of a comma-separated text
Elements(text) ==
    {Stripped(text, piece) : piece \in Pieces(text)} \ {<<>>}

BaseFlags == {BETA_FLAGS_BASE[k] : k \in 1..Len(BETA_FLAGS_BASE)}

\* C11 (beta merge): the upstream anthropic-beta value is a comma-separated
\* list in strictly ascending order (so free of duplicates) whose elements
\* are exactly the four base flags and the trimmed, non-empty elements of the
\* passthrough value; every base flag occurs in it exactly once.
C11_BetaMerge ==
    beta_value # <<>> =>
        LET out == beta_value[1]
            want == BaseFlags \cup
                      (IF passthrough = <<>> THEN {} ELSE Elements(passthrough[1]))
        IN  /\ \A p \in Pieces(out) : p[2] >= p[1]
            /\ {SubSeq(out, p[1], p[2]) : p \in Pieces(out)} = want
            /\ \A p, q \in Pieces(out) :
                  p[1] < q[1] => str_cmp_lt(SubSeq(out, p[1], p[2]),
                                            SubSeq(out, q[1], q[2]))
            /\ \A b \in BaseFlags :
                  Cardinality({p \in Pieces(out) : SubSeq(out, p[1], p[2]) = b}) = 1

\* the passthrough "a, b ,oauth-2025-04-20," has been merged
C11_Witness ==
    /\ passthrough = <<BetaExample>>
    /\ beta_value = << <<"a", ",", "b", ",", "c", ",", "f", ",", "i", ",", "o">> >>

(***************************************************************************)
(* System-prompt injection                                                 *)
(***************************************************************************)

\* the element has a text that is a string in which "You are Claude Code"
\* occurs
HasIdentity(element) ==
    /\ element.text # <<>>
    /\ element.text[1].type = "string"
    /\ LET words == element.text[1].str IN
       \E k \in 1..Len(words) :
           /\ k + 3 <= Len(words)
           /\ <<words[k], words[k + 1], words[k + 2], words[k + 3]>>
                = <<"You", "are", "Claude", "Code">>

\* C12 (system-prompt injection): with system an array that is empty or
\* whose first element lacks a text containing "You are Claude Code", the
\* identity element comes first and the previous elements follow unchanged;
\* with the identity in the first element's text, and with system absent or
\* not an array, the body is unchanged.
C12_PromptInjection ==
    injected # <<>> =>
        LET before == body.system
            after == injected[1].system
        IN  IF before = <<>> \/ before[1].type # "array"
            THEN after = before
            ELSE IF before[1].items # <<>> /\ HasIdentity(before[1].items[1])
            THEN after = before
            ELSE /\ after # <<>>
                 /\ after[1].type = "array"
                 /\ Len(after[1].items) = Len(before[1].items) + 1
                 /\ after[1].items[1] = IdentityPrompt
                 /\ \A k \in 1..Len(before[1].items) :
                       after[1].items[k + 1] = before[1].items[k]

\* the prompt went in front of [{text: "hello"}, <an element with the identity>]
C12_Witness ==
    /\ injected # <<>>
    /\ body.system # <<>>
    /\ body.system[1].type = "array"
    /\ Len(body.system[1].items) = 2
    /\ body.system[1].items[1].text = <<JsonString(<<"hello">>)>>
    /\ HasIdentity(body.system[1].items[2])
    /\ Len(injected[1].system[1].items) = 3

(***************************************************************************)
(* Usage merge                                                             *)
(***************************************************************************)

UsageFields ==
    {"input_tokens", "output_tokens", "cache_read_tokens", "cache_creation_tokens"}

\* C13 (usage merge): after merging A and then B into a zero Usage, each of
\* the four counters is B's if B's is not 0 and A's otherwise; no counter
\* takes its value from another.
C13_UsageMerge ==
    Len(merged) = 2 =>
        \A f \in UsageFields :
            total[f] = IF merged[2][f] # 0 THEN merged[2][f] ELSE merged[1][f]

\* A and B with one counter only in A, one only in B, one in both and one in
\* neither
C13_Witness ==
    /\ merged = <<Usage(1, 0, 1, 0), Usage(0, 2, 2, 0)>>
    /\ total = Usage(1, 2, 2, 0)

(***************************************************************************)
(* Streaming usage tally                                                   *)
(***************************************************************************)

\* the name of a Usage counter in the JSON usage object
JsonField(f) ==
    CASE f = "input_tokens" -> "input_tokens"
      [] f = "output_tokens" -> "output_tokens"
      [] f = "cache_read_tokens" -> "cache_read_input_tokens"
      [] f = "cache_creation_tokens" -> "cache_creation_input_tokens"

\* the value symbol sym carries for counter f: that of message.usage in a
\* message_start, of usage in a message_delta, 0 when missing
Carried(sym, f) ==
    LET d == DataLine(sym)
        u == IF d.type = "message_start" THEN d.message[1].usage
             ELSE IF d.type = "message_delta" THEN d.usage
             ELSE <<>>
    IN  IF u = <<>> THEN 0
        ELSE IF u[1][JsonField(f)] = <<>> THEN 0
        ELSE u[1][JsonField(f)][1]

\* the data lines of the stream, as <<event, position in the event>>
DataPositions ==
    {ps \in (1..Len(events)) \X (1..3) :
        /\ ps[2] <= Len(events[ps[1]])
        /\ events[ps[1]][ps[2]] \in DataSymbols
        /\ ps[2] = 1 \/ events[ps[1]][ps[2] - 1] = "LF"
        /\ ps[2] = Len(events[ps[1]]) \/ events[ps[1]][ps[2] + 1] = "LF"}

Later(p, q) == p[1] > q[1] \/ (p[1] = q[1] /\ p[2] >= q[2])

\* the last nonzero value the stream carries for counter f, 0 if none
LastCarried(f) ==
    LET hits == {ps \in DataPositions : Carried(events[ps[1]][ps[2]], f) # 0} IN
    IF hits = {} THEN 0
    ELSE LET last == CHOOSE p \in hits : \A q \in hits : Later(p, q)
         IN  Carried(events[last[1]][last[2]], f)

\* C14 (streaming usage tally): at the end of a stream each counter of the
\* relay's usage is the last nonzero value a message_start or message_delta
\* carried for it; an event with zero or missing counters updates only the
\* counters it has.
C14_UsageTally ==
    RelayedAll => \A f \in UsageFields : usage[f] = LastCarried(f)

(***************************************************************************)
(* Errors and disconnects in a stream                                      *)
(***************************************************************************)

\* the synthetic event data: {"error": "<message>"}
SyntheticError == <<"error", "LF", "LF">>

\* C16 (error inside a stream): after an upstream error, with the client
\* connected, the relay has stopped, no complete event is left unsent, one
\* synthetic error event was sent, and it is the last item sent.
C16_StreamError ==
    (failed /\ client = "connected") =>
        /\ relay = "done"
        /\ find_separator(buffer) = 0
        /\ Cardinality({k \in 1..Len(sent) : sent[k] = SyntheticError}) = 1
        /\ sent[Len(sent)] = SyntheticError

\* C17 (client disconnect): the step in which the send of an event fails
\* ends the relay without a send and without reading upstream; a relay that
\* has ended does nothing more; and once the client is gone the relay
\* eventually ends.
C17_ClientDisconnect ==
    /\ [][ /\ (relay = "emitting" /\ client = "gone" /\ find_separator(buffer) # 0)
              => (relay' = "done" /\ sent' = sent /\ upstream' = upstream)
           /\ relay = "done" => UNCHANGED <<relay, sent, upstream, buffer>> ]_vars
    /\ (client = "gone") ~> (relay = "done")

\* the send of an event failed with upstream chunks still unread
C17_Witness ==
    /\ client = "gone"
    /\ relay = "done"
    /\ ~failed
    /\ find_separator(buffer) # 0
    /\ upstream # <<>>

(***************************************************************************)
(* Messages handler                                                        *)
(***************************************************************************)

\* the counter field f of the usage object of a body, 0 when missing
BodyCounter(u, f) ==
    IF u[JsonField(f)] = <<>> THEN 0 ELSE u[JsonField(f)][1]

\* C15 (non-streaming usage logging): the usage the handler logs for a
\* successful unit response has the counters of the usage object of the
\* upstream body, zero counters included.
C15_UsageLogging ==
    (logged # <<>> /\ api_response[1].body.usage # <<>>) =>
        \A f \in UsageFields :
            logged[1][f] = BodyCounter(api_response[1].body.usage[1], f)

RECURSIVE SumOver(_, _)
SumOver(f, S) ==
    IF S = {} THEN 0
    ELSE LET p == CHOOSE q \in S : TRUE IN f[p] + SumOver(f, S \ {p})

\* C18 (no retry, no failover): a request makes at most one selection, one
\* token fetch and one POST to the messages URL, all on the provider
\* selected, whatever the outcome of the call.
C18_NoRetryNoFailover ==
    /\ selects <= 1
    /\ SumOver(fetches, ProviderSet) <= 1
    /\ SumOver(calls, ProviderSet) <= 1
    /\ \A p \in ProviderSet :
          (fetches[p] > 0 \/ calls[p] > 0) => chosen = <<p>>

\* the POST through A failed at transport level while B was available, and
\* the request ended
C18_Witness ==
    /\ step = "done"
    /\ chosen = <<"A">>
    /\ api_response = <<TransportError>>
    /\ calls = [p \in ProviderSet |-> IF p = "A" THEN 1 ELSE 0]
    /\ is_provider_available("B")

LoginGuidance == "No provider available. Run 'pluribus login' first."

\* C19 (error outcomes): a request that ended on a failed selection, token
\* fetch, POST or upstream status has the answer 500 with a JSON error body
\* whose message embeds the cause; without a provider nothing was fetched or
\* posted; a streaming body is started only on an upstream 2xx.
C19_ErrorOutcomes ==
    /\ (step = "done" /\ selects = 1 /\ chosen = <<>>) =>
          /\ answer.status = 500 /\ answer.kind = "error"
          /\ answer.content_type = "application/json"
          /\ answer.message.text = LoginGuidance
          /\ SumOver(fetches, ProviderSet) = 0
          /\ SumOver(calls, ProviderSet) = 0
    /\ (token_result \notin {"none", "ok"}) =>
          /\ step = "done"
          /\ answer.status = 500 /\ answer.kind = "error"
          /\ answer.message.text = token_result
          /\ SumOver(calls, ProviderSet) = 0
    /\ (api_response # <<>> /\ api_response[1].error) =>
          /\ step = "done"
          /\ answer.status = 500 /\ answer.kind = "error"
          /\ answer.message.detail = "transport"
    /\ (api_response # <<>> /\ ~api_response[1].error
          /\ (api_response[1].status < 200 \/ api_response[1].status > 299)) =>
          /\ step = "done"
          /\ answer.status = 500 /\ answer.kind = "error"
          /\ answer.message.status = api_response[1].status
          /\ answer.message.detail = api_response[1].body.id
    /\ answer.kind = "stream" =>
          /\ api_response # <<>> /\ ~api_response[1].error
          /\ api_response[1].status \in 200..299

\* a streaming request ended on an upstream 429
C19_Witness ==
    /\ step = "done"
    /\ streaming
    /\ api_response # <<>>
    /\ api_response[1].status = 429
    /\ api_response[1].body.id = "zeros"
    /\ answer.status = 500
    /\ answer.message = Cause("Claude API error", 429, "zeros")

(***************************************************************************)
(* Claims about the provider files                                         *)
(***************************************************************************)

\* C20: a ProviderConfig saved under its own name and then loaded by that
\* name comes back equal in name, type and every credential field, whatever
\* its credentials (OAuth or API), its type tag and its scopes (empty
\* included), and after a second save over an existing file the load gives
\* the record saved last.
C20_RoundTrip == loaded # <<>> => loaded[1] = saved

(***************************************************************************)
(* Claims about the provider directory                                     *)
(***************************************************************************)

\* the text has a table of that name
HasTable(text, header) ==
    \E i \in 1..Len(text) : Len(text[i]) = 1 /\ text[i][1] = header

\* the text the last operation found under the name it was given
TextLoaded == files_before[file_path(ProvidersDir, last_arg)]

\* C21: a load that succeeds has read a file in which exactly one of the
\* oauth and api sub-sections is present: a file with neither and a file
\* with both fail and yield no ProviderConfig.
C21_StructuralValidation ==
    (last_op = "load" /\ last_result # <<>>) =>
        /\ file_path(ProvidersDir, last_arg) \in DOMAIN files_before
        /\ HasTable(TextLoaded, "[oauth]") # HasTable(TextLoaded, "[api]")

\* a file directly in the providers directory whose name is <stem>.toml
IsTomlFile(path) ==
    /\ parent(path) = ProvidersDir
    /\ LET file == path[Len(path)]
       IN  /\ Len(file) >= 3
           /\ file[Len(file) - 1] = "."
           /\ file[Len(file)] = "toml"

\* the *.toml files of the directory that load successfully
Loadable(files) == {p \in DOMAIN files : IsTomlFile(p) /\ load(files, p) # <<>>}

\* C22: load_all returns exactly the records of the *.toml files that load
\* successfully, each once: a file that fails to parse or validate is left
\* out without failing the call or dropping another file's record, and a
\* missing directory gives the empty list.
C22_LoadAllIsolation ==
    last_op = "load_all" =>
        /\ Len(last_result) = Cardinality(Loadable(files_before))
        /\ \A p \in Loadable(files_before) :
             \E i \in 1..Len(last_result) : <<last_result[i]>> = load(files_before, p)
        /\ (~dir_present => last_result = <<>>)

\* load_all ran over a malformed w.toml, a valid x.toml and a file that is
\* not a *.toml, and returned the record of x alone
C22_Witness ==
    /\ last_op = "load_all"
    /\ NotesPath \in DOMAIN files_before
    /\ file_path(ProvidersDir, <<"w">>) \in DOMAIN files_before
    /\ files_before[file_path(ProvidersDir, <<"w">>)] = TextGarbage
    /\ file_path(ProvidersDir, <<"x">>) \in DOMAIN files_before
    /\ files_before[file_path(ProvidersDir, <<"x">>)] = TextApi
    /\ Len(last_result) = 1
    /\ last_result[1].name = <<"x">>

(***************************************************************************)
(* Further claims about provider selection                                 *)
(***************************************************************************)

\* C23: successive requests are spread over the providers in rotation: when
\* two providers that the filter accepts are both available, a call does not
\* return the provider that the call before it, made with the same filter,
\* returned.
C23_RoundRobin ==
    [][ \A f \in SUBSET ProviderSet :
          ( /\ GetNextProvider(f)
            /\ selection.filter = f
            /\ selection.result # <<>>
            /\ \E i, j \in 1..Len(providers) :
                 i # j /\ Eligible(i, f) /\ Eligible(j, f) )
          => selection'.result # selection.result ]_vars

(***************************************************************************)
(* Further claims about the OAuth credential lifecycle                     *)
(***************************************************************************)

\* a credential is stale iff now_ms + 300000 >= expires_at
Stale(cred) == (ticks * TickMs) + 300000 >= cred.expires_at

CacheFresh == cached_oauth # <<>> /\ ~Stale(cached_oauth[1])

\* C25: the token endpoint is called only by a caller that found the cache
\* missing or stale and then loaded a stale credential from disk.  With a
\* fresh cached credential get_valid_token returns the cached access token
\* without reading disk or refreshing.  With a missing or stale cache and a
\* fresh credential on disk it returns the disk token and installs that
\* credential in the cache, without refreshing or writing disk.
C25_RefreshTrigger ==
    [][ /\ tokCalls' # tokCalls =>
             \E t \in Callers : pc[t] = "refresh" /\ pc'[t] = "refreshing"
        /\ \A t \in Callers :
             /\ (pc'[t] = "refresh" /\ pc[t] # "refresh") =>
                    (pc[t] = "load" /\ Stale(disk) /\ oauth'[t] = <<disk>>)
             /\ (pc'[t] = "load" /\ pc[t] # "load") =>
                    (pc[t] = "idle" /\ ~CacheFresh)
             /\ (pc[t] = "idle" /\ pc'[t] # "idle") =>
                    IF CacheFresh
                    THEN /\ pc'[t] = "post"
                         /\ outcome'[t] = "ok"
                         /\ token'[t] = cached_oauth[1].access_token
                         /\ oauth'[t] = <<>>
                         /\ UNCHANGED <<tokCalls, disk, cached_oauth>>
                    ELSE pc'[t] = "load"
             /\ (pc[t] = "load" /\ oauth'[t] # <<>>) =>
                    /\ oauth'[t] = <<disk>>
                    /\ pc'[t] = (IF Stale(disk) THEN "refresh" ELSE "store")
                    /\ UNCHANGED <<tokCalls, disk, cached_oauth>>
             /\ (pc[t] = "store" /\ pc'[t] # "store" /\ response[t] = <<>>) =>
                    /\ pc'[t] = "post"
                    /\ outcome'[t] = "ok"
                    /\ token'[t] = oauth[t][1].access_token
                    /\ cached_oauth' = oauth[t]
                    /\ UNCHANGED <<tokCalls, disk>> ]_vars

\* a caller found the cache empty and a fresh credential on disk, and returned
\* the disk token after installing it in the cache, with no call to the
\* token endpoint
C25_Witness ==
    \E t \in Callers :
        /\ pc[t] \in {"post", "done"}
        /\ outcome[t] = "ok"
        /\ response[t] = <<>>
        /\ oauth[t] = <<disk>>
        /\ cached_oauth = <<disk>>
        /\ token[t] = disk.access_token
        /\ tokCalls = 0

(***************************************************************************)
(* Claims about rate-limit ingestion                                       *)
(***************************************************************************)
\* The values a window's three headers are meant to be read as: the status
\* text, the reset second and the utilization in thousandths, and an empty
\* status and zeros where a header is missing or is not readable.
IntendedWindow(status, reset, utilization) ==
    [status |-> CASE status = <<<<"rejected">>>> -> <<"rejected">>
                  [] status = <<<<"allowed">>>> -> <<"allowed">>
                  [] status = <<<<"allowed_warning">>>> -> <<"allowed_warning">>
                  [] OTHER -> <<>>,
     reset |-> CASE reset = <<<<"2">>>> -> 2
                 [] reset = <<<<"1">>>> -> 1
                 [] reset = <<<<"+", "1">>>> -> 1
                 [] OTHER -> 0,
     utilization |-> CASE utilization = <<<<"0", ".", "9", "9", "6">>>> -> 996
                       [] utilization = <<<<"0", ".", "5">>>> -> 500
                       [] utilization = <<<<"1">>>> -> 1000
                       [] OTHER -> 0]

IntendedSnapshot(headers, now) ==
    [five_hour |->
        IntendedWindow(headers["anthropic-ratelimit-unified-5h-status"],
                       headers["anthropic-ratelimit-unified-5h-reset"],
                       headers["anthropic-ratelimit-unified-5h-utilization"]),
     seven_day |->
        IntendedWindow(headers["anthropic-ratelimit-unified-7d-status"],
                       headers["anthropic-ratelimit-unified-7d-reset"],
                       headers["anthropic-ratelimit-unified-7d-utilization"]),
     updated_at |-> now]

\* the headers report a window used beyond 0.995 that resets after now
ReportsExhausted(headers, now) ==
    \E w \in {IntendedSnapshot(headers, now).five_hour,
              IntendedSnapshot(headers, now).seven_day} :
        w.utilization > 995 /\ w.reset > now

\* C26: every response of the messages endpoint, whatever its status,
\* replaces the snapshot of the provider that sent the request by the values
\* of the response's six rate-limit headers (empty status and zero for a
\* missing or unreadable header) with updated_at the current second, and
\* leaves the other providers' snapshots alone; and while the last response
\* is a non-2xx one that reports a window used beyond 0.995 with a reset
\* still ahead, a selection does not return that provider.
C26_RateLimitIngestion ==
    [][/\ (responses' # responses /\ received' # <<>>) =>
            rate_limit' = [rate_limit EXCEPT ![received'[1].from] =
                             IntendedSnapshot(received'[1].headers, now_s)]
       /\ (selection' # selection /\ received # <<>>) =>
            (~is_success(received[1].status)
             /\ ReportsExhausted(received[1].headers, now_s)
                => selection'.result # <<received[1].from>>)]_vars

\* a 429 of provider A's upstream reported the 5-hour window exhausted and
\* unreadable 7-day headers, and the selection made after it returned B
C26_Witness ==
    /\ received # <<>>
    /\ received[1].from = "A"
    /\ received[1].status = 429
    /\ received[1].headers =
          HeaderMap(<<<<<<"rejected">>>>, <<<<"2">>>>, <<<<"0", ".", "9", "9", "6">>>>>>,
                    <<<<<<"FF">>>>, <<<<"-", "1">>>>, <<<<"x">>>>>>)
    /\ rate_limit["A"].five_hour.utilization = 996
    /\ rate_limit["A"].seven_day = [status |-> <<>>, reset |-> 0, utilization |-> 0]
    /\ selection.filter = ProviderSet
    /\ selection.result = <<"B">>
    /\ selection.at >= rate_limit["A"].updated_at

(***************************************************************************)
(* Claims about snapshot coherence                                         *)
(***************************************************************************)
\* C27: whatever the interleaving of the threads that ingest a response and
\* the threads that read the snapshot, a snapshot returned to a reader has
\* its 5-hour window, its 7-day window and its updated_at all from the
\* initial snapshot or all from one and the same response.
C27_SnapshotCoherence ==
    \A t \in DOMAIN observed :
        observed[t] # <<>> =>
            /\ observed[t][1].five_hour = observed[t][1].seven_day
            /\ observed[t][1].seven_day = observed[t][1].updated_at

\* the selection read the snapshot of one response and health that of the
\* other, while responses and reads overlapped in time
C27_Witness ==
    /\ observed # <<>>
    /\ observed["selection"] # <<>>
    /\ observed["health"] # <<>>
    /\ observed["selection"][1].five_hour = 1
    /\ observed["health"][1].five_hour = 2
    /\ guarded.updated_at = 1

(***************************************************************************)
(* Claims about request forwarding                                         *)
(***************************************************************************)
\* the request passed the authentication middleware
Authenticated(i) ==
    is_valid([authorization |-> arrived[i].headers.authorization,
              x_api_key |-> arrived[i].headers.x_api_key])

\* the two requests have the same body and the same anthropic-beta header
SameBodyAndBeta ==
    /\ arrived[1].body = arrived[2].body
    /\ arrived[1].headers.anthropic_beta = arrived[2].headers.anthropic_beta

\* no header of the upstream request carries the gateway secret
SecretKept(i) ==
    \A h \in DOMAIN posted[i][1].headers :
        /\ posted[i][1].headers[h] # secret
        /\ posted[i][1].headers[h] # BearerPrefix \o secret

\* two authenticated requests that differ only outside the body and the
\* anthropic-beta header are posted upstream as the same request
NonInterference ==
    (Authenticated(1) /\ Authenticated(2) /\ SameBodyAndBeta) =>
        /\ posted[1] # <<>>
        /\ posted[1] = posted[2]

\* C28 as stated: non-interference, the gateway secret is not sent, and the
\* headers of the upstream request are exactly Authorization with the
\* provider's bearer token, Content-Type, Accept, anthropic-version and
\* anthropic-beta.
C28_ExactlyFiveHeaders ==
    forward_step = "posted" =>
        /\ NonInterference
        /\ \A i \in 1..2 :
              posted[i] # <<>> =>
                /\ SecretKept(i)
                /\ posted[i][1].headers["authorization"] =
                      BearerPrefix \o AccessToken
                /\ DOMAIN posted[i][1].headers =
                      {"authorization", "content-type", "accept",
                       "anthropic-version", "anthropic-beta"}

\* C28, amended: two authenticated requests with the same body and the same
\* anthropic-beta header, whatever their other headers and the form of
\* their credential, are posted upstream as the same request; the headers
\* the gateway sets on it are exactly Authorization with the provider's
\* bearer token, Content-Type, Accept, anthropic-version, anthropic-beta and
\* the User-Agent claude-code/<version> of the shared client; none of them
\* carries the gateway secret.
C28_AllowListNonInterference ==
    forward_step = "posted" =>
        /\ NonInterference
        /\ \A i \in 1..2 :
              posted[i] # <<>> =>
                /\ SecretKept(i)
                /\ posted[i][1].headers["authorization"] =
                      BearerPrefix \o AccessToken
                /\ posted[i][1].headers["user-agent"] = user_agent
                /\ DOMAIN posted[i][1].headers =
                      {"authorization", "content-type", "accept",
                       "anthropic-version", "anthropic-beta", "user-agent"}

\* one request came with a bearer secret and its own user-agent, the other
\* with the secret in x-api-key; both carried the same anthropic-beta and
\* body, and both were posted
C28_Witness ==
    /\ forward_step = "posted"
    /\ arrived[1].headers.authorization # <<>>
    /\ arrived[1].headers.x_api_key = <<>>
    /\ arrived[1].headers.other = <<"user-agent", <<"curl">>>>
    /\ arrived[2].headers.authorization = <<>>
    /\ arrived[2].headers.other = <<>>
    /\ arrived[1].headers.anthropic_beta = <<<<"a">>>>
    /\ SameBodyAndBeta
    /\ posted[1] # <<>>
    /\ posted[2] # <<>>
    /\ posted[1][1].headers["anthropic-beta"] # build_beta_value(<<>>)

\* the client's original body had the boolean stream = true
OriginalStream(i) ==
    /\ is_object(arrived[i].body)
    /\ "stream" \in DOMAIN arrived[i].body[2]
    /\ arrived[i].body[2]["stream"][1] = "bool"
    /\ arrived[i].body[2]["stream"][2]

\* the members of the body sent are those of the body handed over, without
\* _passthrough_headers and with stream set to the dispatch mode
MembersFramed(i) ==
    /\ is_object(posted[i][1].body)
    /\ DOMAIN posted[i][1].body[2] =
          (DOMAIN handed[i][1][2] \ {"_passthrough_headers"}) \cup {"stream"}
    /\ posted[i][1].body[2]["stream"] = <<"bool", mode[i]>>
    /\ \A m \in DOMAIN posted[i][1].body[2] \ {"stream"} :
          posted[i][1].body[2][m] = handed[i][1][2][m]

\* C29 as stated: the body sent upstream is the body handed to the provider
\* with _passthrough_headers removed and stream set to the dispatch mode,
\* which is true iff the client's body had the boolean stream = true; its
\* anthropic-beta went into the upstream header.
C29_BodyFrameAnyBody ==
    forward_step = "posted" =>
        \A i \in 1..2 :
            posted[i] # <<>> =>
                /\ mode[i] = OriginalStream(i)
                /\ MembersFramed(i)
                /\ posted[i][1].headers["anthropic-beta"] =
                      build_beta_value(passed_beta(handed[i][1]))

\* C29, amended: when the body handed to the provider is a JSON object, the
\* body sent upstream is that object with _passthrough_headers removed and
\* stream set to the dispatch mode, every other member unchanged; a body
\* that is not an object is sent as it is.  The dispatch mode is true iff
\* the client's body was an object with the boolean stream = true.
C29_BodyFrame ==
    forward_step = "posted" =>
        \A i \in 1..2 :
            posted[i] # <<>> =>
                /\ mode[i] = OriginalStream(i)
                /\ IF is_object(handed[i][1])
                   THEN MembersFramed(i)
                   ELSE posted[i][1].body = handed[i][1]
                /\ posted[i][1].headers["anthropic-beta"] =
                      build_beta_value(passed_beta(handed[i][1]))

\* a streaming request with an anthropic-beta header was posted without
\* _passthrough_headers, and next to it a body that is not an object
C29_Witness ==
    /\ forward_step = "posted"
    /\ posted[1] # <<>>
    /\ posted[2] # <<>>
    /\ mode[1]
    /\ is_object(handed[1][1])
    /\ "_passthrough_headers" \in DOMAIN handed[1][1][2]
    /\ "_passthrough_headers" \notin DOMAIN posted[1][1].body[2]
    /\ arrived[1].headers.anthropic_beta = <<<<"a">>>>
    /\ ~is_object(handed[2][1])
    /\ posted[2][1].body = <<"array">>

(***************************************************************************)
(* Further claims about the provider directory                             *)
(***************************************************************************)
\* the file update_oauth was last called for
UpdatedPath == file_path(ProvidersDir, last_arg)

\* every file but the one named is as it was before the call
OthersUntouched ==
    /\ DOMAIN dir_files \ {UpdatedPath} = DOMAIN files_before \ {UpdatedPath}
    /\ \A p \in DOMAIN files_before \ {UpdatedPath} :
          dir_files[p] = files_before[p]

\* C30: after update_oauth(dir, name, o) has succeeded, loading name gives a
\* record with the type tag the file had before and the OAuth credentials
\* o, and every other file of the directory is as it was; when the file was
\* missing or did not load, update_oauth fails and no file is written.
C30_UpdateOauthFrame ==
    last_op = "update_oauth" =>
        /\ last_result # <<>> =>
              /\ load(files_before, UpdatedPath) # <<>>
              /\ load(dir_files, UpdatedPath) # <<>>
              /\ load(dir_files, UpdatedPath)[1].provider_type =
                    load(files_before, UpdatedPath)[1].provider_type
              /\ load(dir_files, UpdatedPath)[1].auth = <<"OAuth", last_cred[1]>>
              /\ OthersUntouched
        /\ load(files_before, UpdatedPath) = <<>> =>
              /\ last_result = <<>>
              /\ dir_files = files_before

\* update_oauth succeeded on an API-key file of type anthropic next to
\* another provider's file, and an update of a missing file failed before
C30_Witness ==
    /\ last_op = "update_oauth"
    /\ last_result # <<>>
    /\ last_arg = <<"w">>
    /\ files_before[UpdatedPath] = TextApi
    /\ file_path(ProvidersDir, <<"x">>) \in DOMAIN dir_files
    /\ load(dir_files, UpdatedPath)[1].provider_type = "Anthropic"
    /\ dir_files[UpdatedPath] # files_before[UpdatedPath]

(***************************************************************************)
(* Claims about serving with several providers                             *)
(***************************************************************************)
\* the file of provider p
FileOf(p) == file_path(ProvidersDir, p)

\* request r moves in this step
Moves(r) == serving'[r] # serving[r]

\* C31: while requests are served, the file of a provider changes only in
\* the write of a request that was routed to that provider and whose refresh
\* succeeded, and what is written are the credentials that refresh returned;
\* requests served from a fresh cache or a fresh file and requests whose
\* refresh failed change no file; and a step of a request to one provider
\* changes neither the file nor the cached credential of another provider.
C31_DiskFrame ==
    [][\A p \in Served :
         /\ srv_files'[FileOf(p)] # srv_files[FileOf(p)] =>
               \E r \in Requests :
                   /\ Moves(r)
                   /\ serving[r].provider = p
                   /\ serving[r].local = <<Refreshed(r)>>
                   /\ \/ srv_files'[FileOf(p)] = <<>>
                      \/ /\ load(srv_files', FileOf(p)) # <<>>
                         /\ load(srv_files', FileOf(p))[1].auth =
                               <<"OAuth", Refreshed(r)>>
         /\ \A r \in Requests :
               (Moves(r) /\ serving'[r].provider # p) =>
                   /\ srv_files'[FileOf(p)] = srv_files[FileOf(p)]
                   /\ srv_cache'[p] = srv_cache[p]
         /\ \A r \in Requests :
               (Moves(r) /\ serving'[r].outcome \in {"refresh_err", "load_err",
                                                     "not_oauth"}) =>
                   srv_files' = srv_files]_vars

\* request 1 refreshed provider w, whose file now holds the new credentials,
\* while request 2 was served from the fresh file of provider x, which is as
\* the login left it
C31_Witness ==
    /\ serving # <<>>
    /\ serving[1].provider = <<"w">>
    /\ serving[1].outcome = "ok"
    /\ serving[1].local = <<Refreshed(1)>>
    /\ load(srv_files, FileOf(<<"w">>))[1].auth = <<"OAuth", Refreshed(1)>>
    /\ serving[2].provider = <<"x">>
    /\ serving[2].outcome = "ok"
    /\ serving[2].local = <<FreshCredential>>
    /\ load(srv_files, FileOf(<<"x">>))[1].auth = <<"OAuth", FreshCredential>>
    /\ srv_cache[<<"x">>] = <<FreshCredential>>
    /\ srv_cache[<<"w">>] = <<Refreshed(1)>>

\* C32: a load of a provider's file, in get_valid_token or in update_oauth,
\* that runs while another request saves the same file finds a complete
\* record in it, the old one or the new one, and does not fail.
C32_WriteReadSafety ==
    [][\A r \in Requests :
         (Moves(r) /\ serving[r].at \in {"load", "update"}) =>
             /\ load(srv_files, FileOf(serving[r].provider)) # <<>>
             /\ serving'[r].outcome \notin {"load_err", "persist_err"}]_vars

(***************************************************************************)
(* Claims about the OAuth login                                            *)
(***************************************************************************)
\* The code a pasted line is meant to give: the text before the first '#',
\* without the white space around it; <<>> when that is empty.
IntendedCode(line) ==
    CASE line = <<"c", "\n">> -> <<"c">>
      [] line = <<"c", "#", "s", "\n">> -> <<"c">>
      [] line = <<" ", "c", " ", "#", "s", "\n">> -> <<"c">>
      [] line = <<"c", "d", "#", "#", "e", "\n">> -> <<"c", "d">>
      [] OTHER -> <<>>

\* the login that is running goes on running (no new run starts)
SameRun == login.at \in {"prompt", "exchange"}

\* C33: within one run of perform_oauth_login the verifier, the state and
\* the printed authorize URL never change and no session is generated after
\* the first prompt; every code exchange carries the verifier and the state
\* of the printed URL and, as its code, the pasted text before the first '#';
\* a line with an empty code sends no exchange and is followed by another
\* prompt, a failed exchange is followed by another prompt, and the login
\* returns only from an exchange.
C33_LoginRetry ==
    [][/\ SameRun =>
            /\ login'.verifier = login.verifier
            /\ login'.state = login.state
            /\ login'.authorize_url = login.authorize_url
            /\ generated' = generated
            /\ login'.at \in {"prompt", "exchange", "done"}
       /\ (SameRun /\ pasted' # pasted) \/ (SameRun /\ prompts' # prompts) =>
            IF IntendedCode(pasted') = <<>>
            THEN exchange' = exchange /\ login'.at = "prompt"
            ELSE /\ login'.at = "exchange"
                 /\ exchange'[1].code = IntendedCode(pasted')
                 /\ build_authorize_url(challenge_of(exchange'[1].verifier),
                                        exchange'[1].state) = login.authorize_url
       /\ (SameRun /\ login'.at = "done") => login.at = "exchange"
       /\ (exchange' # exchange /\ exchange' # <<>>) => prompts' = prompts + 1]_vars

\* a login that reused the cached session asked twice: the first exchange
\* failed, the second, for a padded code followed by '#', succeeded
C33_Witness ==
    /\ login.at = "done"
    /\ prompts = 2
    /\ login.verifier = <<"v", 0>>
    /\ pasted = <<" ", "c", " ", "#", "s", "\n">>
    /\ exchange # <<>>
    /\ exchange[1] = [code |-> <<"c">>, verifier |-> <<"v", 0>>,
                      state |-> <<"s", 0>>]

\* a login starts in this step
Starts == logins' # logins

\* the login that starts takes its session from the cache file
Reuses ==
    /\ Starts
    /\ generated' = generated
    /\ cache_file[1] = "cache"
    /\ login'.verifier = cache_file[2].verifier
    /\ login'.state = cache_file[2].state

\* the login that starts runs on a session generated for it
StartsFresh ==
    /\ Starts
    /\ generated' = generated + 1
    /\ login'.verifier = <<"v", generated + 1>>
    /\ login'.state = <<"s", generated + 1>>
    /\ login'.verifier # login.verifier

\* what C34 says apart from the age at which a cache is reused: a cache
\* older than 1 hour is deleted and a fresh session takes its place; a
\* cache that is missing or unreadable, or that cannot be written, leaves
\* the login with a fresh session at its prompt; a successful exchange
\* removes the cache file, and the login after it starts fresh.
CacheLifecycle ==
    /\ (Starts /\ cache_file[1] = "cache"
          /\ login_ms > cache_file[2].created_at + CACHE_TTL_MS) =>
            /\ StartsFresh
            /\ cache_file' \in {<<"absent">>,
                                <<"cache", OAuthLoginCache(generated + 1, login_ms)>>}
    /\ (Starts /\ cache_file[1] # "cache") => StartsFresh
    /\ Starts => login'.at = "prompt" /\ (Reuses \/ StartsFresh)
    /\ (login.at = "exchange" /\ login'.at = "done") => cache_file' = <<"absent">>
    /\ (Starts /\ login.at = "done") => StartsFresh

InGetValidToken(t) == pc[t] \in {"load", "refresh", "refreshing", "persist", "store"}

\* C35: whenever no get_valid_token call is in progress and the cache slot
\* is populated, the cached credential equals the OAuth credential in the
\* provider's file.
C35_CacheDiskAgreement ==
    ((\A t \in Callers : ~InGetValidToken(t)) /\ cached_oauth # <<>>) =>
        cached_oauth[1] = disk

\* the credential caller t holds came from its own refresh
RefreshedBy(t) == oauth[t] # <<>> /\ oauth[t][1].access_token = 10 + t

WithoutPassthrough(value) ==
    IF is_object(value) /\ "_passthrough_headers" \in DOMAIN value[2]
    THEN JsonObject(remove(value[2], "_passthrough_headers"))
    ELSE value

\* both requests of the pair were posted upstream
BothPosted == forward_step = "posted" /\ posted[1] # <<>> /\ posted[2] # <<>>

\* the anthropic-beta header of the i-th upstream POST
UpstreamBeta(i) == posted[i][1].headers["anthropic-beta"]

\* C37: the upstream anthropic-beta header is determined by the client's
\* anthropic-beta request header alone: two requests with the same
\* anthropic-beta header produce the same upstream anthropic-beta header,
\* and so do two requests with identical headers whose bodies differ only in
\* a client-supplied _passthrough_headers member.
C37_BetaOnlyFromHeader ==
    /\ (BothPosted
          /\ arrived[1].headers.anthropic_beta = arrived[2].headers.anthropic_beta)
         => UpstreamBeta(1) = UpstreamBeta(2)
    /\ (BothPosted
          /\ arrived[1].headers = arrived[2].headers
          /\ arrived[1].body # arrived[2].body
          /\ WithoutPassthrough(arrived[1].body) = WithoutPassthrough(arrived[2].body))
         => UpstreamBeta(1) = UpstreamBeta(2)

(***************************************************************************)
(* Claims about the snapshots of a request without a response              *)
(***************************************************************************)

\* the request ended in this step without an HTTP response from the
\* messages endpoint: the token could not be had, the headers could not be
\* built, or the POST failed in transport
EndsWithoutResponse ==
    /\ step # "done"
    /\ step' = "done"
    /\ \/ api_response' = <<>>
       \/ api_response'[1].error

\* C38: when a request obtains no HTTP response from the messages endpoint
\* the rate-limit snapshots, updated_at included, are unchanged; a snapshot
\* changes only by a response to the request that selected its provider.
C38_RateLimitFrame ==
    [][/\ EndsWithoutResponse => rate_limit' = rate_limit
       /\ \A p \in ProviderSet :
            rate_limit'[p] # rate_limit[p] =>
              /\ chosen = <<p>>
              /\ step = "post"
              /\ api_response' # <<>>
              /\ ~api_response'[1].error]_vars

\* at second 1 the request selected a provider whose token could not be
\* had, while the other provider was exhausted: both snapshots stand as
\* they were, stamped at second 0
C38_Witness ==
    /\ step = "done"
    /\ now_s = 1
    /\ chosen # <<>>
    /\ token_result \in TokenErrors
    /\ api_response = <<>>
    /\ rate_limit[chosen[1]] = DefaultRateLimitInfo
    /\ \E p \in ProviderSet : rate_limit[p] = ExhaustedRateLimitInfo

(***************************************************************************)
(* Claims about running the prompt injection again                         *)
(***************************************************************************)

\* the length of a system field that is an array, 0 otherwise
SystemLen(system) ==
    IF system = <<>> THEN 0
    ELSE IF system[1].type # "array" THEN 0
    ELSE Len(system[1].items)

\* C39: applying inject_claude_code_prompt to a body it has already been
\* applied to gives that body again, so the system array is at most one
\* element longer than the client's however often the transform runs.
C39_InjectionIdempotence ==
    injected # <<>> =>
        /\ inject_claude_code_prompt(injected[1].system) = injected[1].system
        /\ SystemLen(inject_claude_code_prompt(injected[1].system))
             <= SystemLen(body.system) + 1

\* the client's array had two elements, the first without the identity
\* text and the second with it; the identity element was prepended
C39_Witness ==
    /\ injected # <<>>
    /\ SystemLen(body.system) = 2
    /\ body.system[1].items[1].text = <<JsonString(<<"hello">>)>>
    /\ body.system[1].items[2].text =
         <<JsonString(<<"hello", "You", "are", "Claude", "Code">>)>>
    /\ SystemLen(injected[1].system) = 3
    /\ injected[1].system[1].items[1] = IdentityPrompt

====
